---- MODULE Spec2Model ----
(***************************************************************************)
(* Upvar borrow-kind inference of librustc_typeck/check/upvar.rs.          *)
(*                                                                         *)
(* A location chain (mc::cmt_) is a sequence of nodes, leaf first: the     *)
(* base of node i is node i+1.  Every node carries its categorization      *)
(* (cat), the pointer kind / interior kind (kind), a field or variant      *)
(* name, its note, the upvar id of the note or of an Upvar root, and the   *)
(* span of the expression it belongs to.                                   *)
(***************************************************************************)
EXTENDS Naturals, Sequences, FiniteSets, TLC

\* ------------------------------------------------------------- bounds
\* Longest run of projections above the root of a chain given to the
\* resolver alone.
MaxProj == 3
\* Most (variable, path) entries the path table of one analysis may hold.
MaxPaths == 3
\* Most closure expressions in one body.
MaxClosures == 3
\* Most call resolutions deferred for one closure.
MaxDeferred == 1
\* Most (variable, path) entries of the path table that is dumped.
MaxEntries == 3

\* ------------------------------------------------------- vocabulary
Vars == {"x", "y"}
ThisClosure == "C"

NoId == [var_path |-> "-", closure_expr_id |-> "-"]
UpvarId(v, c) == [var_path |-> v, closure_expr_id |-> c]

\* ty::CapturePathComponent
Field(n) == <<"Field", n>>
CDeref == <<"Deref">>
CDowncast(v) == <<"Downcast", v>>

\* ------------------------------------------------- chain nodes (mc::cmt_)
NoSpan == "-"
Node(cat, kind, name, note, id) ==
    [cat |-> cat, kind |-> kind, name |-> name, note |-> note, id |-> id,
     span |-> NoSpan]

InteriorField(n) == Node("Interior", "InteriorField", n, "NoteNone", NoId)
InteriorElement == Node("Interior", "InteriorElement", "-", "NoteNone", NoId)
Downcast(v) == Node("Downcast", "-", v, "NoteNone", NoId)
Deref(ptr, note, id) == Node("Deref", ptr, "-", note, id)
Rvalue == Node("Rvalue", "-", "-", "NoteNone", NoId)
Upvar(id) == Node("Upvar", "-", "-", "NoteNone", id)
Local == Node("Local", "-", "-", "NoteNone", NoId)
StaticItem == Node("StaticItem", "-", "-", "NoteNone", NoId)
ThreadLocal == Node("ThreadLocal", "-", "-", "NoteNone", NoId)

\* The chain the categorizer builds for a mention of a captured variable:
\* the Upvar root, under a closure-environment dereference unless the
\* closure is called by value (FnOnce, generators), under the variable's
\* own reference when the variable is captured by reference.
UpvarChain(id, byref, envderef) ==
    (IF byref THEN <<Deref("BorrowedPtr", "NoteUpvarRef", id)>> ELSE <<>>)
    \o (IF envderef THEN <<Deref("BorrowedPtr", "NoteClosureEnv", id)>> ELSE <<>>)
    \o <<Upvar(id)>>

\* ------------------------------------------------------------ resolver
NoneUpvar == [upvar |-> NoId, path |-> <<>>]

\* The resolver that keeps the accumulator across an Rvalue.
RECURSIVE capture_path_by_cmt_inner_through_rvalue(_, _)
capture_path_by_cmt_inner_through_rvalue(acc, cmt) ==
    LET n == Head(cmt)
        base == Tail(cmt)
    IN  CASE n.cat = "Interior" /\ n.kind = "InteriorField" ->
                capture_path_by_cmt_inner_through_rvalue(Append(acc, Field(n.name)), base)
          [] n.cat = "Deref" ->
                (CASE Head(base).note \in {"NoteClosureEnv", "NoteUpvarRef"} ->
                        [upvar |-> Head(base).id, path |-> acc]
                   [] Head(base).note = "NoteNone" ->
                        capture_path_by_cmt_inner_through_rvalue(Append(acc, CDeref), base)
                   [] Head(base).note = "NoteIndex" ->
                        capture_path_by_cmt_inner_through_rvalue(<<>>, base))
          [] n.cat = "Upvar" -> [upvar |-> n.id, path |-> acc]
          [] n.cat = "Interior" /\ n.kind = "InteriorElement" ->
                capture_path_by_cmt_inner_through_rvalue(<<>>, base)
          [] n.cat = "Rvalue" ->
                IF base # <<>> THEN capture_path_by_cmt_inner_through_rvalue(acc, base)
                ELSE NoneUpvar
          [] n.cat = "Downcast" ->
                capture_path_by_cmt_inner_through_rvalue(Append(acc, CDowncast(n.name)), base)
          [] n.cat \in {"ThreadLocal", "StaticItem", "Local"} -> NoneUpvar

RECURSIVE capture_path_by_cmt_inner(_, _)
capture_path_by_cmt_inner(acc, cmt) ==
    LET n == Head(cmt)
        base == Tail(cmt)
    IN  CASE n.cat = "Interior" /\ n.kind = "InteriorField" ->
                capture_path_by_cmt_inner(Append(acc, Field(n.name)), base)
          [] n.cat = "Deref" ->
                \* `cmt` is rebound to the base by the pattern: the note
                \* inspected is the note of the base.
                (CASE Head(base).note \in {"NoteClosureEnv", "NoteUpvarRef"} ->
                        [upvar |-> Head(base).id, path |-> acc]
                   [] Head(base).note = "NoteNone" ->
                        capture_path_by_cmt_inner(Append(acc, CDeref), base)
                   [] Head(base).note = "NoteIndex" ->
                        capture_path_by_cmt_inner(<<>>, base))
          [] n.cat = "Upvar" -> [upvar |-> n.id, path |-> acc]
          [] n.cat = "Interior" /\ n.kind = "InteriorElement" ->
                capture_path_by_cmt_inner(<<>>, base)
          [] n.cat = "Rvalue" ->
                IF base # <<>> THEN capture_path_by_cmt_inner(<<>>, base)
                ELSE NoneUpvar
          [] n.cat = "Downcast" ->
                capture_path_by_cmt_inner(Append(acc, CDowncast(n.name)), base)
          [] n.cat \in {"ThreadLocal", "StaticItem", "Local"} -> NoneUpvar

Rev(s) == [i \in 1..Len(s) |-> s[Len(s) + 1 - i]]

\* The resolver without the final reversal.
capture_path_by_cmt_unreversed(cmt) ==
    capture_path_by_cmt_inner(<<>>, cmt)

capture_path_by_cmt(cmt) ==
    LET r == capture_path_by_cmt_inner(<<>>, cmt)
    IN  [upvar |-> r.upvar, path |-> Rev(r.path)]

\* The guarantor of a chain (mc::cmt_::guarantor): the nearest location
\* that must stay valid; interior, downcast and owned-pointer projections
\* hand over to their base.
RECURSIVE guarantor(_)
guarantor(cmt) ==
    LET n == Head(cmt)
    IN  IF n.cat \in {"Downcast", "Interior"}
           \/ (n.cat = "Deref" /\ n.kind = "Unique")
        THEN guarantor(Tail(cmt))
        ELSE cmt

\* ------------------------------------------------------- capture modes
\* ty::UpvarCapture
\* A by-value capture has no region (<<>>).
ByValue == [mode |-> "ByValue", kind |-> "-", region |-> <<>>]
ByRef(kind, region) == [mode |-> "ByRef", kind |-> kind, region |-> region]

EmptyMap == [k \in {} |-> k]
Put(m, k, v) == [kk \in (DOMAIN m) \cup {k} |-> IF kk = k THEN v ELSE m[kk]]
\* HashMap::extend: the entries of m2 replace those of m1.
Extend(m1, m2) ==
    [k \in (DOMAIN m1) \cup (DOMAIN m2) |-> IF k \in DOMAIN m2 THEN m2[k] ELSE m1[k]]

var_name(var_hir_id) == var_hir_id

\* ------------------------------------------------------------ state
VARIABLES
    pc,            \* where analyze_closure stands
    closure,       \* the closure expression: its type, kind and free variables
    tables,        \* the shared type-check result tables (fcx.tables)
    delegate,      \* the InferBorrowKind of the analysis under way
    parts_omitted, \* what the use-visitor reported after the walk
    unified,       \* what was handed to the type unifier
    cmt_in,        \* a chain given to the resolver alone
    resolved,      \* the resolver's answer for cmt_in
    parent,        \* the closure expressions of a body: the closure each is in
    phase,         \* how far InferBorrowKindVisitor is with each closure
    stack,         \* the closures whose visit_expr is under way, innermost last
    fcx,           \* the closures' types and the deferred call resolutions
    has_attr,      \* the body's owner carries rustc_dump_closure_captures
    errors_buffer, \* the notes closure_analyze buffered, in the order buffered
    emitted        \* the notes closure_analyze emitted, in the order emitted

vars == <<pc, closure, tables, delegate, parts_omitted, unified, cmt_in, resolved,
          parent, phase, stack, fcx, has_attr, errors_buffer, emitted>>

\* What InferBorrowKindVisitor holds; one analysis alone has none of it.
visitvars == <<parent, phase, stack, fcx>>

\* What the dump of closure_analyze holds.
dumpvars == <<has_attr, errors_buffer, emitted>>

\* A seed that is by reference whatever the capture clause.
SeedCapture_by_ref(s, place) == ByRef("ImmBorrow", place)

\* next_region_var: a fresh region variable, named after the place it is
\* allocated for (every place allocates at most one); region_vars counts
\* the allocations.
SeedCapture(s, place) ==
    IF s.capture_clause = "CaptureByValue" THEN ByValue
    ELSE ByRef("ImmBorrow", place)

SeedRegions(s) ==
    IF s.capture_clause = "CaptureByValue" THEN s.region_vars
    ELSE s.region_vars + 1

Panic(s) == [s EXCEPT !.panicked = TRUE]

\* initialize_capture_path that seeds the path anew every time.
initialize_capture_path_reseed(s, cmt) ==
    LET r == capture_path_by_cmt(cmt)
    IN  IF r.upvar = NoId THEN s
        ELSE LET paths_for_upvar ==
                     IF r.upvar \in DOMAIN s.upvar_captures
                     THEN s.upvar_captures[r.upvar] ELSE EmptyMap
             IN  [s EXCEPT
                     !.upvar_captures =
                         Put(@, r.upvar, Put(paths_for_upvar, r.path,
                                 SeedCapture(s, <<r.upvar.var_path, r.path>>))),
                     !.region_vars = SeedRegions(s)]

\* initialize_capture_path that takes a chain without a captured variable
\* for a place of the first free variable.
initialize_capture_path_any_root(s, cmt) ==
    LET r == capture_path_by_cmt(cmt)
        id == IF r.upvar = NoId THEN [var_path |-> "x", closure_expr_id |-> s.closure_def_id]
              ELSE r.upvar
        paths_for_upvar ==
            IF id \in DOMAIN s.upvar_captures THEN s.upvar_captures[id] ELSE EmptyMap
    IN  IF r.path \in DOMAIN paths_for_upvar
        THEN [s EXCEPT !.upvar_captures = Put(@, id, paths_for_upvar)]
        ELSE [s EXCEPT
                !.upvar_captures =
                    Put(@, id, Put(paths_for_upvar, r.path,
                                   SeedCapture(s, <<id.var_path, r.path>>))),
                !.region_vars = SeedRegions(s)]

initialize_capture_path(s, cmt) ==
    LET r == capture_path_by_cmt(cmt)
    IN  IF r.upvar = NoId THEN s
        ELSE LET paths_for_upvar ==
                     IF r.upvar \in DOMAIN s.upvar_captures
                     THEN s.upvar_captures[r.upvar] ELSE EmptyMap
             IN  IF r.path \in DOMAIN paths_for_upvar
                 THEN [s EXCEPT !.upvar_captures = Put(@, r.upvar, paths_for_upvar)]
                 ELSE [s EXCEPT
                         !.upvar_captures =
                             Put(@, r.upvar, Put(paths_for_upvar, r.path,
                                     SeedCapture(s, <<r.upvar.var_path, r.path>>))),
                         !.region_vars = SeedRegions(s)]

\* adjust_closure_kind that does not ask whose variable it is.
adjust_closure_kind_any_closure(s, closure_id, new_kind, upvar_span, name) ==
    LET existing_kind == s.current_closure_kind
    IN  IF \/ (existing_kind = "Fn" /\ new_kind = "Fn")
           \/ (existing_kind = "FnMut" /\ new_kind \in {"Fn", "FnMut"})
           \/ existing_kind = "FnOnce"
        THEN s
        ELSE [s EXCEPT !.current_closure_kind = new_kind,
                       !.current_origin = <<upvar_span, name>>]

\* adjust_closure_kind that stores the origin whether or not the kind is
\* raised.
adjust_closure_kind_always_origin(s, closure_id, new_kind, upvar_span, name) ==
    IF closure_id # s.closure_def_id THEN s
    ELSE LET existing_kind == s.current_closure_kind
         IN  IF \/ (existing_kind = "Fn" /\ new_kind = "Fn")
                \/ (existing_kind = "FnMut" /\ new_kind \in {"Fn", "FnMut"})
                \/ existing_kind = "FnOnce"
             THEN [s EXCEPT !.current_origin = <<upvar_span, name>>]
             ELSE [s EXCEPT !.current_closure_kind = new_kind,
                            !.current_origin = <<upvar_span, name>>]

\* adjust_closure_kind that never raises the kind above FnMut.
adjust_closure_kind_upto_mut(s, closure_id, new_kind, upvar_span, name) ==
    IF closure_id # s.closure_def_id \/ s.current_closure_kind # "Fn" THEN s
    ELSE IF new_kind = "Fn" THEN s
    ELSE [s EXCEPT !.current_closure_kind = "FnMut",
                   !.current_origin = <<upvar_span, name>>]

adjust_closure_kind(s, closure_id, new_kind, upvar_span, name) ==
    IF closure_id # s.closure_def_id THEN s
    ELSE LET existing_kind == s.current_closure_kind
         IN  IF \/ (existing_kind = "Fn" /\ new_kind = "Fn")
                \/ (existing_kind = "FnMut" /\ new_kind \in {"Fn", "FnMut"})
                \/ existing_kind = "FnOnce"
             THEN s
             ELSE [s EXCEPT !.current_closure_kind = new_kind,
                            !.current_origin = <<upvar_span, name>>]

\* The match taking the right-hand side whenever the kinds differ.
TakeRHS_overwrite(old, kind) == old # kind

\* The match on (upvar_borrow.kind, kind): TRUE when the right-hand side
\* is taken.
TakeRHS(old, kind) ==
    \/ (old = "ImmBorrow" /\ kind \in {"UniqueImmBorrow", "MutBorrow"})
    \/ (old = "UniqueImmBorrow" /\ kind = "MutBorrow")

\* No whole-variable adjustment at all.
adjust_whole_upvar_never(s, upvar_id, kind) == s

\* The whole-variable adjustment applied to every entry of the delegate
\* and of the tables alike.
adjust_whole_upvar_every(s, upvar_id, kind) ==
    LET ids == (DOMAIN s.adjust_upvar_captures) \cup (DOMAIN tables.upvar_capture_map)
        old(id) == IF id \in DOMAIN s.adjust_upvar_captures
                   THEN s.adjust_upvar_captures[id]
                   ELSE tables.upvar_capture_map[id]
    IN  [s EXCEPT !.adjust_upvar_captures =
            [id \in ids |->
                IF old(id).mode = "ByRef" /\ old(id).kind # "MutBorrow"
                THEN ByRef(kind, old(id).region) ELSE old(id)]]

\* The first half of adjust_upvar_borrow_kind: the whole-variable capture,
\* read from the delegate or else from the tables.
adjust_whole_upvar(s, upvar_id, kind) ==
    LET upvar_capture ==
            IF upvar_id \in DOMAIN s.adjust_upvar_captures
            THEN s.adjust_upvar_captures[upvar_id]
            ELSE tables.upvar_capture_map[upvar_id]
    IN  IF upvar_capture.mode = "ByRef" /\ TakeRHS(upvar_capture.kind, kind)
        THEN [s EXCEPT !.adjust_upvar_captures =
                          Put(@, upvar_id, ByRef(kind, upvar_capture.region))]
        ELSE s

adjust_upvar_borrow_kind(s, upvar_id, kind, cmt) ==
    IF upvar_id \notin DOMAIN s.adjust_upvar_captures
       /\ upvar_id \notin DOMAIN tables.upvar_capture_map
    THEN Panic(s)
    ELSE
    LET s1 == adjust_whole_upvar(s, upvar_id, kind)
        r == capture_path_by_cmt(cmt)
    IN  IF r.upvar = NoId THEN Panic(s1)
        ELSE IF r.upvar # upvar_id THEN Panic(s1)
        ELSE IF upvar_id \notin DOMAIN s1.upvar_captures THEN Panic(s1)
        ELSE LET paths_for_upvar == s1.upvar_captures[upvar_id]
                 s2 == IF r.path \in DOMAIN paths_for_upvar THEN s1
                       ELSE [s1 EXCEPT
                               !.upvar_captures[upvar_id] =
                                   Put(@, r.path,
                                       SeedCapture(s1, <<upvar_id.var_path, r.path>>)),
                               !.region_vars = SeedRegions(s1)]
                 capture == s2.upvar_captures[upvar_id][r.path]
             IN  IF capture.mode = "ByRef" /\ TakeRHS(capture.kind, kind)
                 THEN [s2 EXCEPT !.upvar_captures[upvar_id][r.path] =
                                    ByRef(kind, capture.region)]
                 ELSE s2

\* try_adjust_upvar_deref that leaves the closure kind alone at the
\* closure-environment dereference.
try_adjust_upvar_deref_env_silent(s, cmt, borrow_kind) ==
    LET n == Head(cmt)
    IN  IF borrow_kind = "ImmBorrow" THEN [s |-> Panic(s), ok |-> FALSE]
        ELSE CASE n.note = "NoteUpvarRef" ->
                    LET s1 == adjust_upvar_borrow_kind(s, n.id, borrow_kind, cmt)
                    IN  [s |-> IF s1.panicked THEN s1
                               ELSE adjust_closure_kind(s1, n.id.closure_expr_id, "FnMut",
                                                        n.span, var_name(n.id.var_path)),
                         ok |-> TRUE]
               [] n.note = "NoteClosureEnv" -> [s |-> s, ok |-> TRUE]
               [] n.note \in {"NoteIndex", "NoteNone"} -> [s |-> s, ok |-> FALSE]

\* Returns the new state and whether the dereference was an upvar's.
try_adjust_upvar_deref(s, cmt, borrow_kind) ==
    LET n == Head(cmt)
    IN  IF borrow_kind = "ImmBorrow" THEN [s |-> Panic(s), ok |-> FALSE]
        ELSE CASE n.note = "NoteUpvarRef" ->
                    LET s1 == adjust_upvar_borrow_kind(s, n.id, borrow_kind, cmt)
                    IN  [s |-> IF s1.panicked THEN s1
                               ELSE adjust_closure_kind(s1, n.id.closure_expr_id, "FnMut",
                                                        n.span, var_name(n.id.var_path)),
                         ok |-> TRUE]
               [] n.note = "NoteClosureEnv" ->
                    [s |-> adjust_closure_kind(s, n.id.closure_expr_id, "FnMut",
                                               n.span, var_name(n.id.var_path)),
                     ok |-> TRUE]
               [] n.note \in {"NoteIndex", "NoteNone"} -> [s |-> s, ok |-> FALSE]

RECURSIVE adjust_upvar_borrow_kind_for_unique(_, _)
adjust_upvar_borrow_kind_for_unique(s, cmt) ==
    LET n == Head(cmt)
        base == Tail(cmt)
    IN  CASE (n.cat = "Deref" /\ n.kind = "Unique") \/ n.cat \in {"Interior", "Downcast"} ->
                adjust_upvar_borrow_kind_for_unique(s, base)
          [] n.cat = "Deref" /\ n.kind = "BorrowedPtr" ->
                LET t == try_adjust_upvar_deref(s, cmt, "UniqueImmBorrow")
                IN  IF t.ok \/ t.s.panicked THEN t.s
                    ELSE adjust_upvar_borrow_kind_for_unique(t.s, base)
          [] OTHER -> s

\* adjust_upvar_borrow_kind_for_mut that keeps asking for a mutable
\* borrow beneath a borrowed pointer that is no capture.
RECURSIVE adjust_upvar_borrow_kind_for_mut_throughout(_, _)
adjust_upvar_borrow_kind_for_mut_throughout(s, cmt) ==
    LET n == Head(cmt)
        base == Tail(cmt)
    IN  CASE (n.cat = "Deref" /\ n.kind = "Unique") \/ n.cat \in {"Interior", "Downcast"} ->
                adjust_upvar_borrow_kind_for_mut_throughout(s, base)
          [] n.cat = "Deref" /\ n.kind = "BorrowedPtr" ->
                LET t == try_adjust_upvar_deref(s, cmt, "MutBorrow")
                IN  IF t.ok \/ t.s.panicked THEN t.s
                    ELSE adjust_upvar_borrow_kind_for_mut_throughout(t.s, base)
          [] OTHER -> s

RECURSIVE adjust_upvar_borrow_kind_for_mut(_, _)
adjust_upvar_borrow_kind_for_mut(s, cmt) ==
    LET n == Head(cmt)
        base == Tail(cmt)
    IN  CASE (n.cat = "Deref" /\ n.kind = "Unique") \/ n.cat \in {"Interior", "Downcast"} ->
                adjust_upvar_borrow_kind_for_mut(s, base)
          [] n.cat = "Deref" /\ n.kind = "BorrowedPtr" ->
                LET t == try_adjust_upvar_deref(s, cmt, "MutBorrow")
                IN  IF t.ok \/ t.s.panicked THEN t.s
                    ELSE adjust_upvar_borrow_kind_for_unique(t.s, base)
          [] OTHER -> s

\* adjust_upvar_borrow_kind_for_consume that does not look at the mode.
adjust_upvar_borrow_kind_for_any_consume(s, cmt, mode) ==
    LET g == Head(guarantor(cmt))
    IN  IF ~(g.cat = "Deref" /\ g.kind = "BorrowedPtr") THEN s
        ELSE CASE g.note = "NoteUpvarRef" ->
                    LET s1 == adjust_closure_kind(s, g.id.closure_expr_id, "FnOnce",
                                                  g.span, var_name(g.id.var_path))
                        s2 == [s1 EXCEPT !.adjust_upvar_captures = Put(@, g.id, ByValue)]
                        r == capture_path_by_cmt(cmt)
                    IN  IF r.upvar = NoId THEN Panic(s2)
                        ELSE IF r.upvar # g.id THEN Panic(s2)
                        ELSE IF g.id \notin DOMAIN s2.upvar_captures THEN Panic(s2)
                        ELSE [s2 EXCEPT !.upvar_captures[g.id] = Put(@, r.path, ByValue)]
               [] g.note = "NoteClosureEnv" ->
                    adjust_closure_kind(s, g.id.closure_expr_id, "FnOnce",
                                        g.span, var_name(g.id.var_path))
               [] g.note \in {"NoteIndex", "NoteNone"} -> s

adjust_upvar_borrow_kind_for_consume(s, cmt, mode) ==
    IF mode = "Copy" THEN s
    ELSE
    LET g == Head(guarantor(cmt))
    IN  IF ~(g.cat = "Deref" /\ g.kind = "BorrowedPtr") THEN s
        ELSE CASE g.note = "NoteUpvarRef" ->
                    LET s1 == adjust_closure_kind(s, g.id.closure_expr_id, "FnOnce",
                                                  g.span, var_name(g.id.var_path))
                        s2 == [s1 EXCEPT !.adjust_upvar_captures = Put(@, g.id, ByValue)]
                        r == capture_path_by_cmt(cmt)
                    IN  IF r.upvar = NoId THEN Panic(s2)
                        ELSE IF r.upvar # g.id THEN Panic(s2)
                        ELSE IF g.id \notin DOMAIN s2.upvar_captures THEN Panic(s2)
                        ELSE [s2 EXCEPT !.upvar_captures[g.id] = Put(@, r.path, ByValue)]
               [] g.note = "NoteClosureEnv" ->
                    adjust_closure_kind(s, g.id.closure_expr_id, "FnOnce",
                                        g.span, var_name(g.id.var_path))
               [] g.note \in {"NoteIndex", "NoteNone"} -> s

\* ------------------------------------------- euv::Delegate callbacks
consume(s, cmt, mode) ==
    adjust_upvar_borrow_kind_for_consume(initialize_capture_path(s, cmt), cmt, mode)

\* matched_pat that does what consume does.
matched_pat_consumes(s, cmt, mode) ==
    adjust_upvar_borrow_kind_for_consume(initialize_capture_path(s, cmt), cmt, mode)

matched_pat(s, cmt, mode) == s

consume_pat(s, cmt, mode) ==
    adjust_upvar_borrow_kind_for_consume(initialize_capture_path(s, cmt), cmt, mode)

\* borrow that treats a shared borrow as a unique one.
borrow_imm_as_unique(s, cmt, bk) ==
    LET s1 == initialize_capture_path(s, cmt)
    IN  CASE bk \in {"ImmBorrow", "UniqueImmBorrow"} ->
                adjust_upvar_borrow_kind_for_unique(s1, cmt)
          [] bk = "MutBorrow" -> adjust_upvar_borrow_kind_for_mut(s1, cmt)

borrow(s, cmt, bk) ==
    LET s1 == initialize_capture_path(s, cmt)
    IN  CASE bk = "ImmBorrow" -> s1
          [] bk = "UniqueImmBorrow" -> adjust_upvar_borrow_kind_for_unique(s1, cmt)
          [] bk = "MutBorrow" -> adjust_upvar_borrow_kind_for_mut(s1, cmt)

decl_without_init(s) == s

mutate(s, assignee_cmt) ==
    adjust_upvar_borrow_kind_for_mut(initialize_capture_path(s, assignee_cmt), assignee_cmt)

\* ------------------------------------------------- analyze_closure
\* infer_kind that does not ask whether the kind is fixed already.
infer_kind_any_closure(c) == c.ty = "Closure"

\* The kind the closure is to be inferred for: its substitutions when its
\* kind is not fixed yet, nothing for a fixed kind and for generators.
infer_kind(c) == c.ty = "Closure" /\ c.kind = "None"

\* The closure kind the categorizer sees while the body is walked
\* (LATTICE_BOTTOM when it is not known yet, FnOnce for a generator).
CategorizerKind(c) ==
    IF c.ty = "Generator" THEN "FnOnce"
    ELSE IF c.kind = "None" THEN "Fn" ELSE c.kind

freevar_ids(c) ==
    [i \in 1..Len(c.freevars) |-> UpvarId(c.freevars[i], ThisClosure)]

Range(f) == {f[i] : i \in DOMAIN f}

\* A seeding that also writes an empty path table for every free variable
\* into the shared tables.
SeedTables_with_paths(tbl, c) ==
    LET ids == freevar_ids(c)
        capture_kind(id) ==
            IF c.capture_clause = "CaptureByValue" THEN ByValue
            ELSE ByRef("ImmBorrow", <<id.var_path>>)
    IN  [tbl EXCEPT
            !.upvar_capture_map =
                Extend(@, [id \in Range(ids) |-> capture_kind(id)]),
            !.upvar_captures = Extend(@, [id \in Range(ids) |-> EmptyMap]),
            !.upvar_list = IF ids # <<>> THEN Put(@, ThisClosure, ids) ELSE @]

\* The seeding loop over the free variables and the insertion of the list.
SeedTables(tbl, c) ==
    LET ids == freevar_ids(c)
        capture_kind(id) ==
            IF c.capture_clause = "CaptureByValue" THEN ByValue
            ELSE ByRef("ImmBorrow", <<id.var_path>>)
    IN  [tbl EXCEPT
            !.upvar_capture_map =
                Extend(@, [id \in Range(ids) |-> capture_kind(id)]),
            !.upvar_list = IF ids # <<>> THEN Put(@, ThisClosure, ids) ELSE @]

NoOrigin == <<>>

NewDelegate(c) ==
    [closure_def_id |-> ThisClosure,
     current_closure_kind |-> "Fn",
     current_origin |-> NoOrigin,
     adjust_upvar_captures |-> EmptyMap,
     capture_clause |-> c.capture_clause,
     upvar_captures |-> EmptyMap,
     region_vars |-> IF c.capture_clause = "CaptureByRef" THEN Len(c.freevars) ELSE 0,
     panicked |-> FALSE]

NoDelegate ==
    [closure_def_id |-> "-",
     current_closure_kind |-> "Fn",
     current_origin |-> NoOrigin,
     adjust_upvar_captures |-> EmptyMap,
     capture_clause |-> "-",
     upvar_captures |-> EmptyMap,
     region_vars |-> 0,
     panicked |-> FALSE]

\* BorrowKind::to_mutbl_lossy
to_mutbl_lossy(kind) ==
    IF kind = "MutBorrow" THEN "MutMutable" ELSE "MutImmutable"

\* final_upvar_tys that lists the types last free variable first.
final_upvar_tys_reversed(tbl, c) ==
    [i \in 1..Len(c.freevars) |->
        LET v == c.freevars[Len(c.freevars) + 1 - i]
            capture == tbl.upvar_capture_map[UpvarId(v, ThisClosure)]
        IN  IF capture.mode = "ByValue" THEN <<"Ty", v>>
            ELSE <<"Ref", capture.region, to_mutbl_lossy(capture.kind), v>>]

final_upvar_tys(tbl, c) ==
    [i \in 1..Len(c.freevars) |->
        LET capture == tbl.upvar_capture_map[UpvarId(c.freevars[i], ThisClosure)]
        IN  IF capture.mode = "ByValue" THEN <<"Ty", c.freevars[i]>>
            ELSE <<"Ref", capture.region, to_mutbl_lossy(capture.kind), c.freevars[i]>>]

\* The variables (var_path) of the upvar list of the closure and of the
\* keys of the delegate's path table.
ListVars(tbl) ==
    IF ThisClosure \in DOMAIN tbl.upvar_list
    THEN {id.var_path : id \in Range(tbl.upvar_list[ThisClosure])} ELSE {}

KeyVars(s) == {id.var_path : id \in DOMAIN s.upvar_captures}

\* The check made whether or not the visitor omitted parts.
CheckFails_strict(tbl, s, omitted) == ~(KeyVars(s) \subseteq ListVars(tbl))

\* The condition under which analyze_closure reports a bug after the walk.
CheckFails(tbl, s, omitted) == ~omitted /\ ~(KeyVars(s) \subseteq ListVars(tbl))

\* ------------------------------------------------------------ inputs
Spans == {"s1", "s2"}

WithSpan(cmt, sp) == [i \in 1..Len(cmt) |-> [cmt[i] EXCEPT !.span = sp]]

\* The roots that are no captured variable.
OtherRoots == {<<Local>>, <<StaticItem>>, <<ThreadLocal>>, <<Rvalue>>}

\* Chains for the resolver alone: every run of at most MaxProj projections
\* over every root.
ProjNodes ==
    {InteriorField("a"), InteriorField("b"), InteriorField("c"), InteriorElement,
     Downcast("V"), Rvalue,
     Deref("Unique", "NoteNone", NoId), Deref("BorrowedPtr", "NoteNone", NoId),
     Deref("BorrowedPtr", "NoteIndex", NoId)}

ProjSeqs(n) == UNION {[1..k -> ProjNodes] : k \in 0..n}

ResolverRoots ==
    {UpvarChain(UpvarId(v, ThisClosure), byref, envderef) :
        v \in Vars, byref \in BOOLEAN, envderef \in BOOLEAN} \cup OtherRoots

ResolverChains == {p \o r : p \in ProjSeqs(MaxProj), r \in ResolverRoots}

\* Chains the use-visitor reports while it walks the body of closure c: a
\* captured variable is categorized by the capture the tables hold for it
\* (the seed) and by the kind the categorizer sees.  The body mentions x
\* under every kind of projection and y, the other variable, under few.
WalkProjs(v) ==
    IF v = "x"
    THEN {<<>>,
          <<InteriorField("a")>>, <<InteriorField("b")>>, <<InteriorElement>>,
          <<Downcast("V")>>, <<Rvalue>>,
          <<Deref("Unique", "NoteNone", NoId)>>,
          <<Deref("BorrowedPtr", "NoteNone", NoId)>>,
          <<Deref("UnsafePtr", "NoteNone", NoId)>>,
          <<Deref("BorrowedPtr", "NoteIndex", NoId)>>}
    ELSE {<<>>}

WalkUpvar(c, v) ==
    UpvarChain(UpvarId(v, ThisClosure), c.capture_clause = "CaptureByRef",
               CategorizerKind(c) # "FnOnce")

WalkChains(c) ==
    {WithSpan(p, sp) :
        p \in UNION {{q \o WalkUpvar(c, v) : q \in WalkProjs(v)} : v \in Vars}
              \cup OtherRoots,
        sp \in Spans}

Closures ==
    {c \in [ty : {"Closure", "Generator", "Error"},
            kind : {"None", "FnMut", "FnOnce"},
            capture_clause : {"CaptureByRef", "CaptureByValue"},
            freevars : {<<>>, <<"x">>, <<"y", "x">>}] :
        c.ty # "Closure" => c.kind = "None"}

EmptyTables ==
    [upvar_capture_map |-> EmptyMap,
     upvar_list |-> EmptyMap,
     upvar_captures |-> EmptyMap,
     closure_kind_origins |-> EmptyMap]

NothingUnified == [closure_kind_ty |-> "-", upvar_tys |-> <<>>]

NPaths(s) ==
    Cardinality(UNION {{<<id, p>> : p \in DOMAIN s.upvar_captures[id]} :
                            id \in DOMAIN s.upvar_captures})

\* ------------------------------------------------------------ actions
Init ==
    /\ pc = "start"
    /\ closure \in Closures
    /\ tables = EmptyTables
    /\ delegate = NoDelegate
    /\ parts_omitted = FALSE
    /\ unified = NothingUnified
    /\ cmt_in = <<>>
    /\ resolved = NoneUpvar
    /\ parent = <<>>
    /\ phase = <<>>
    /\ stack = <<>>
    /\ fcx = <<>>
    /\ has_attr = FALSE
    /\ errors_buffer = <<>>
    /\ emitted = <<>>

\* analyze_closure without the early return on an error type.
AnalyzeStart_never_skips ==
    /\ pc = "start"
    /\ pc' = "walk"
    /\ tables' = SeedTables(tables, closure)
    /\ delegate' = NewDelegate(closure)
    /\ UNCHANGED <<closure, parts_omitted, unified, cmt_in, resolved>>
    /\ UNCHANGED visitvars
    /\ UNCHANGED dumpvars

\* analyze_closure up to the walk of the body: the closure's type, the
\* seeds, the delegate.
AnalyzeStart ==
    /\ pc = "start"
    /\ IF closure.ty = "Error"
       THEN /\ pc' = "skipped"
            /\ UNCHANGED <<tables, delegate>>
       ELSE /\ pc' = "walk"
            /\ tables' = SeedTables(tables, closure)
            /\ delegate' = NewDelegate(closure)
    /\ UNCHANGED <<closure, parts_omitted, unified, cmt_in, resolved>>
    /\ UNCHANGED visitvars
    /\ UNCHANGED dumpvars

\* One callback of the use-visitor: the delegate's new state, or the
\* abort of the analysis.
Callback(s) ==
    /\ NPaths(s) <= MaxPaths
    /\ delegate' = s
    /\ pc' = IF s.panicked THEN "bug" ELSE "walk"
    /\ UNCHANGED <<closure, tables, parts_omitted, unified, cmt_in, resolved>>
    /\ UNCHANGED visitvars
    /\ UNCHANGED dumpvars

Consume ==
    /\ pc = "walk"
    /\ \E cmt \in WalkChains(closure), mode \in {"Copy", "Move"} :
            Callback(consume(delegate, cmt, mode))

MatchedPat ==
    /\ pc = "walk"
    /\ \E cmt \in WalkChains(closure), mode \in {"Copy", "Move"} :
            Callback(matched_pat(delegate, cmt, mode))

ConsumePat ==
    /\ pc = "walk"
    /\ \E cmt \in WalkChains(closure), mode \in {"Copy", "Move"} :
            Callback(consume_pat(delegate, cmt, mode))

Borrow ==
    /\ pc = "walk"
    /\ \E cmt \in WalkChains(closure),
          bk \in {"ImmBorrow", "UniqueImmBorrow", "MutBorrow"} :
            Callback(borrow(delegate, cmt, bk))

DeclWithoutInit ==
    /\ pc = "walk"
    /\ Callback(decl_without_init(delegate))

Mutate ==
    /\ pc = "walk"
    /\ \E cmt \in WalkChains(closure) : Callback(mutate(delegate, cmt))

\* analyze_closure after the walk: the kind, the check, the merge, the
\* final upvar types.
KindUnified(c, s) ==
    IF infer_kind(c) THEN s.current_closure_kind ELSE "-"

OriginsStored(tbl, c, s) ==
    IF infer_kind(c) /\ s.current_origin # NoOrigin
    THEN [tbl EXCEPT !.closure_kind_origins = Put(@, ThisClosure, s.current_origin)]
    ELSE tbl

\* A merge that keeps the entries of the closure under analysis alone.
Merged_own_entries_only(tbl, s) ==
    LET whole == Extend(tbl.upvar_capture_map, s.adjust_upvar_captures)
        paths == Extend(tbl.upvar_captures, s.upvar_captures)
    IN  [tbl EXCEPT
            !.upvar_capture_map =
                [id \in {i \in DOMAIN whole : i.closure_expr_id = ThisClosure} |-> whole[id]],
            !.upvar_captures =
                [id \in {i \in DOMAIN paths : i.closure_expr_id = ThisClosure} |-> paths[id]]]

Merged(tbl, s) ==
    [tbl EXCEPT !.upvar_capture_map = Extend(@, s.adjust_upvar_captures),
                !.upvar_captures = Extend(@, s.upvar_captures)]

AnalyzeFinish ==
    /\ pc = "walk"
    /\ \E omitted \in BOOLEAN :
        LET t1 == OriginsStored(tables, closure, delegate)
        IN  /\ parts_omitted' = omitted
            /\ IF CheckFails(t1, delegate, omitted)
               THEN /\ pc' = "bug"
                    /\ tables' = t1
                    /\ unified' = [unified EXCEPT
                                      !.closure_kind_ty = KindUnified(closure, delegate)]
               ELSE /\ pc' = "done"
                    /\ tables' = Merged(t1, delegate)
                    /\ unified' =
                         [closure_kind_ty |-> KindUnified(closure, delegate),
                          upvar_tys |-> final_upvar_tys(Merged(t1, delegate), closure)]
    /\ UNCHANGED <<closure, delegate, cmt_in, resolved>>
    /\ UNCHANGED visitvars
    /\ UNCHANGED dumpvars

Next ==
    \/ AnalyzeStart
    \/ Consume
    \/ MatchedPat
    \/ ConsumePat
    \/ Borrow
    \/ DeclWithoutInit
    \/ Mutate
    \/ AnalyzeFinish

Spec == Init /\ [][Next]_vars

\* ----------------------------------------- the resolver on its own
InitResolve ==
    /\ pc = "resolve"
    /\ cmt_in \in ResolverChains
    /\ resolved = NoneUpvar
    /\ closure \in {c \in Closures : c.ty = "Error" /\ c.freevars = <<>>
                                     /\ c.capture_clause = "CaptureByRef"}
    /\ tables = EmptyTables
    /\ delegate = NoDelegate
    /\ parts_omitted = FALSE
    /\ unified = NothingUnified
    /\ parent = <<>>
    /\ phase = <<>>
    /\ stack = <<>>
    /\ fcx = <<>>
    /\ has_attr = FALSE
    /\ errors_buffer = <<>>
    /\ emitted = <<>>

Resolve ==
    /\ pc = "resolve"
    /\ resolved' = capture_path_by_cmt(cmt_in)
    /\ pc' = "resolved"
    /\ UNCHANGED <<closure, tables, delegate, parts_omitted, unified, cmt_in>>
    /\ UNCHANGED visitvars
    /\ UNCHANGED dumpvars

NextResolve == Resolve

SpecResolve == InitResolve /\ [][NextResolve]_vars

\* -------------------------------- InferBorrowKindVisitor over a body
\* The closure expressions of a body are 1..MaxClosures in source order;
\* parent[c] is the closure whose body holds c, 0 for the body itself.
Nestings == {f \in [1..MaxClosures -> 0..MaxClosures] : \A c \in 1..MaxClosures : f[c] < c}

\* What analyze_closure does, in order.
AnalysisPhases == <<"seed", "walk", "check", "merge", "types", "deferred">>

Children(p) == {c \in 1..MaxClosures : parent[c] = p}

\* The calls of a closure whose resolution was deferred until the kind of
\* the closure is known (callee.rs); a closure expression whose type is
\* the error type was never a callee.  resolves counts the calls of
\* DeferredCallResolution::resolve.
CallIds == 1..MaxDeferred

Bodies ==
    {f \in [node_ty : [1..MaxClosures -> {"Closure", "Error"}],
            deferred_call_resolutions : [1..MaxClosures -> SUBSET CallIds],
            registered : [1..MaxClosures -> SUBSET CallIds],
            resolves : [1..MaxClosures -> [CallIds -> {0}]]] :
        /\ f.registered = f.deferred_call_resolutions
        /\ \A c \in 1..MaxClosures :
                f.node_ty[c] = "Error" => f.deferred_call_resolutions[c] = {}}

\* The end of analyze_closure without the resolutions.
ResolveDeferred_none(f, c) == f

\* remove_deferred_call_resolutions and the loop over what it returned.
ResolveDeferred(f, c) ==
    [f EXCEPT
        !.deferred_call_resolutions[c] = {},
        !.resolves[c] = [k \in CallIds |->
                            IF k \in f.deferred_call_resolutions[c] THEN @[k] + 1 ELSE @[k]]]

\* analyze_closure called before visit_body.
BodyVisited_not_awaited(c) == TRUE

\* visit_body of closure c has returned: visit_expr was called, and has
\* returned, for every closure expression in the body.
BodyVisited(c) == \A k \in Children(c) : phase[k] = "done"

Top == stack[Len(stack)]

InitVisit ==
    /\ pc = "visit"
    /\ parent \in Nestings
    /\ phase = [c \in 1..MaxClosures |-> "unvisited"]
    /\ stack = <<0>>
    /\ fcx \in Bodies
    /\ has_attr = FALSE
    /\ errors_buffer = <<>>
    /\ emitted = <<>>
    /\ closure \in {c \in Closures : c.ty = "Error" /\ c.freevars = <<>>
                                     /\ c.capture_clause = "CaptureByRef"}
    /\ tables = EmptyTables
    /\ delegate = NoDelegate
    /\ parts_omitted = FALSE
    /\ unified = NothingUnified
    /\ cmt_in = <<>>
    /\ resolved = NoneUpvar

UnchangedAnalysis ==
    UNCHANGED <<pc, closure, tables, delegate, parts_omitted, unified, cmt_in,
                resolved, parent, has_attr, errors_buffer, emitted>>

\* visit_expr reaches the next closure expression of the body being
\* visited and calls visit_body on its body.
VisitExpr ==
    /\ pc = "visit"
    /\ IF Top = 0 THEN TRUE ELSE phase[Top] = "body"
    /\ \E c \in Children(Top) :
            /\ phase[c] = "unvisited"
            /\ \A k \in Children(Top) : k < c => phase[k] = "done"
            /\ phase' = [phase EXCEPT ![c] = "body"]
            /\ stack' = Append(stack, c)
    /\ UNCHANGED fcx
    /\ UnchangedAnalysis

\* visit_body has returned and visit_expr calls analyze_closure, which
\* returns at once for a closure of error type.
AnalyzeClosure ==
    /\ pc = "visit"
    /\ Top # 0
    /\ phase[Top] = "body"
    /\ BodyVisited(Top)
    /\ phase' = [phase EXCEPT ![Top] = IF fcx.node_ty[Top] = "Error" THEN "returned"
                                       ELSE AnalysisPhases[1]]
    /\ UNCHANGED <<stack, fcx>>
    /\ UnchangedAnalysis

\* analyze_closure goes on to its next part.
AnalyzeStep ==
    /\ pc = "visit"
    /\ Top # 0
    /\ \E i \in 1..(Len(AnalysisPhases) - 1) :
            /\ phase[Top] = AnalysisPhases[i]
            /\ phase' = [phase EXCEPT ![Top] = AnalysisPhases[i + 1]]
            /\ fcx' = IF AnalysisPhases[i + 1] = "deferred" THEN ResolveDeferred(fcx, Top)
                      ELSE fcx
    /\ UNCHANGED stack
    /\ UnchangedAnalysis

\* analyze_closure returns; walk_expr does not enter the body again
\* (NestedVisitorMap::None) and visit_expr returns.
WalkExpr ==
    /\ pc = "visit"
    /\ Top # 0
    /\ phase[Top] \in {AnalysisPhases[Len(AnalysisPhases)], "returned"}
    /\ phase' = [phase EXCEPT ![Top] = "done"]
    /\ stack' = SubSeq(stack, 1, Len(stack) - 1)
    /\ UNCHANGED fcx
    /\ UnchangedAnalysis

\* visit_body of the body has returned: closure_analyze asserts that no
\* deferred call resolution is left.
AssertNoneDeferred ==
    /\ pc = "visit"
    /\ stack = <<0>>
    /\ BodyVisited(0)
    /\ pc' = IF \A c \in 1..MaxClosures : fcx.deferred_call_resolutions[c] = {}
             THEN "visited" ELSE "bug"
    /\ UNCHANGED <<closure, tables, delegate, parts_omitted, unified, cmt_in, resolved>>
    /\ UNCHANGED visitvars
    /\ UNCHANGED dumpvars

NextVisit ==
    \/ VisitExpr
    \/ AnalyzeClosure
    \/ AnalyzeStep
    \/ WalkExpr
    \/ AssertNoneDeferred

SpecVisit == InitVisit /\ [][NextVisit]_vars

\* ------------------- analyze_closure after that of a nested closure
\* A closure in the body of the closure under analysis.  The visitor has
\* analysed it already (visit_body comes before analyze_closure), so the
\* shared tables hold its seeds, its merged captures and its origin when
\* the analysis of the enclosing closure starts.
InnerClosure == "D"

InnerResults ==
    {[upvar_capture_map |->
          (UpvarId("x", InnerClosure) :> ByRef("MutBorrow", <<"x">>))
          @@ (UpvarId("y", InnerClosure) :> ByRef("ImmBorrow", <<"y">>)),
      upvar_list |->
          (InnerClosure :> <<UpvarId("y", InnerClosure), UpvarId("x", InnerClosure)>>),
      upvar_captures |->
          (UpvarId("x", InnerClosure) :>
              ((<<>> :> ByRef("MutBorrow", <<"x", <<>>>>))
               @@ (<<Field("a")>> :> ByRef("ImmBorrow", <<"x", <<Field("a")>>>>))))
          @@ (UpvarId("y", InnerClosure) :>
              (<<>> :> ByRef("ImmBorrow", <<"y", <<>>>>))),
      closure_kind_origins |-> (InnerClosure :> <<"s1", "x">>)],
     [upvar_capture_map |-> (UpvarId("x", InnerClosure) :> ByValue),
      upvar_list |-> (InnerClosure :> <<UpvarId("x", InnerClosure)>>),
      upvar_captures |->
          (UpvarId("x", InnerClosure) :> (<<Field("a")>> :> ByValue)),
      closure_kind_origins |-> EmptyMap]}

\* The enclosing closure captures x, which the nested closure captures
\* through it.
InitNested ==
    /\ pc = "start"
    /\ closure \in {c \in Closures : "x" \in Range(c.freevars)}
    /\ tables \in InnerResults
    /\ delegate = NoDelegate
    /\ parts_omitted = FALSE
    /\ unified = NothingUnified
    /\ cmt_in = <<>>
    /\ resolved = NoneUpvar
    /\ parent = <<>>
    /\ phase = <<>>
    /\ stack = <<>>
    /\ fcx = <<>>
    /\ has_attr = FALSE
    /\ errors_buffer = <<>>
    /\ emitted = <<>>

SpecNested == InitNested /\ [][Next]_vars

\* ------------------------------- the capture dump of closure_analyze
\* The closures of the dumped body and the start of their spans.
DumpClosures == {ThisClosure, "D"}
DumpSpan(c) == IF c = ThisClosure THEN 1 ELSE 2

\* The (variable, path) entries a dumped path table may hold, and the
\* path tables of at most MaxEntries entries.
DumpEntries ==
    {<<UpvarId(v, c), path>> :
        v \in {"x"}, c \in DumpClosures, path \in {<<>>, <<Field("a")>>}}
    \cup {<<UpvarId("y", "D"), <<>>>>}

DumpModes == {ByValue, ByRef("MutBorrow", <<"r">>)}

DumpTables ==
    UNION {{[id \in {e[1] : e \in es} |->
                [path \in {e[2] : e \in {d \in es : d[1] = id}} |-> m[<<id, path>>]]] :
            m \in [es -> DumpModes]} :
           es \in {s \in SUBSET DumpEntries : Cardinality(s) <= MaxEntries}}

\* The entries of a path table.
EntriesOf(upvar_captures) ==
    UNION {{<<id, path>> : path \in DOMAIN upvar_captures[id]} : id \in DOMAIN upvar_captures}

\* span_note_diag and note: the note of one entry, at the span of the
\* closure expression.
Diag(upvar_captures, e) ==
    [span |-> DumpSpan(e[1].closure_expr_id),
     upvar |-> var_name(e[1].var_path),
     path |-> e[2],
     capture |-> upvar_captures[e[1]][e[2]]]

\* The orders in which the two loops can meet the entries: the variables
\* in any order (the iteration order of a hash map), the paths of one
\* variable together and in any order.
IterationOrders(upvar_captures) ==
    LET es == EntriesOf(upvar_captures)
        n == Cardinality(es)
    IN  {o \in [1..n -> es] :
            /\ \A i, j \in 1..n : i # j => o[i] # o[j]
            /\ \A i, j, k \in 1..n :
                    (i < j /\ j < k /\ o[i][1] = o[k][1]) => o[j][1] = o[i][1]}

\* The buffer emitted as it was filled.
sort_by_key_unsorted(buf) == buf

\* errors_buffer.sort_by_key(|diag| diag.span.primary_span()): a stable
\* sort, here by insertion from the left.
RECURSIVE sort_by_key(_)
sort_by_key(buf) ==
    IF buf = <<>> THEN <<>>
    ELSE LET rest == sort_by_key(SubSeq(buf, 1, Len(buf) - 1))
             last == buf[Len(buf)]
             k == Cardinality({i \in 1..Len(rest) : rest[i].span <= last.span})
         IN  SubSeq(rest, 1, k) \o <<last>> \o SubSeq(rest, k + 1, Len(rest))

InitDump ==
    /\ pc = "dump"
    /\ has_attr \in BOOLEAN
    /\ tables \in {[EmptyTables EXCEPT !.upvar_captures = m] : m \in DumpTables}
    /\ errors_buffer = <<>>
    /\ emitted = <<>>
    /\ closure \in {c \in Closures : c.ty = "Error" /\ c.freevars = <<>>
                                     /\ c.capture_clause = "CaptureByRef"}
    /\ delegate = NoDelegate
    /\ parts_omitted = FALSE
    /\ unified = NothingUnified
    /\ cmt_in = <<>>
    /\ resolved = NoneUpvar
    /\ parent = <<>>
    /\ phase = <<>>
    /\ stack = <<>>
    /\ fcx = <<>>

\* closure_analyze after the assertion: nothing without the attribute;
\* with it one note per entry, buffered, sorted and emitted.
Dump ==
    /\ pc = "dump"
    /\ pc' = "dumped"
    /\ IF ~has_attr
       THEN UNCHANGED <<errors_buffer, emitted>>
       ELSE \E o \in IterationOrders(tables.upvar_captures) :
                /\ errors_buffer' = [i \in DOMAIN o |-> Diag(tables.upvar_captures, o[i])]
                /\ emitted' = sort_by_key(errors_buffer')
    /\ UNCHANGED <<closure, tables, delegate, parts_omitted, unified, cmt_in, resolved,
                   has_attr>>
    /\ UNCHANGED visitvars

NextDump == Dump

SpecDump == InitDump /\ [][NextDump]_vars

\* =================================================================
\* Properties
\* =================================================================
Max(a, b) == IF a >= b THEN a ELSE b

\* Shared < UniqueShared < Exclusive < ByValue
KindRank(k) ==
    CASE k = "ImmBorrow" -> 0
      [] k = "UniqueImmBorrow" -> 1
      [] k = "MutBorrow" -> 2

ModeRank(capture) ==
    IF capture.mode = "ByValue" THEN 3 ELSE KindRank(capture.kind)

\* CallShared < CallMut < CallOnce
ClassRank(k) ==
    CASE k = "Fn" -> 0
      [] k = "FnMut" -> 1
      [] k = "FnOnce" -> 2

Seeded(c) == {UpvarId(v, ThisClosure) : v \in Range(c.freevars)}

\* The whole-variable mode of a seeded variable while the body is walked.
WholeMode(s, id) ==
    IF id \in DOMAIN s.adjust_upvar_captures
    THEN s.adjust_upvar_captures[id]
    ELSE tables.upvar_capture_map[id]

\* The rank of the path entry (id, path); a path not yet observed counts
\* as its seed would.
PathRank(s, id, path) ==
    IF id \in DOMAIN s.upvar_captures /\ path \in DOMAIN s.upvar_captures[id]
    THEN ModeRank(s.upvar_captures[id][path])
    ELSE IF s.capture_clause = "CaptureByValue" THEN 3 ELSE 0

ByRefWalk == pc = "walk" /\ closure.capture_clause = "CaptureByRef"

XId == UpvarId("x", ThisClosure)
YId == UpvarId("y", ThisClosure)

\* The chain of the projections p of variable v, at span sp.
Place(p, v, sp) == WithSpan(p \o WalkUpvar(closure, v), sp)

\* A borrow or mutate request and the strength it asks for.
Requests == {"borrowImm", "borrowUnique", "borrowMut", "mutate"}

Request(s, cmt, req) ==
    CASE req = "borrowImm" -> borrow(s, cmt, "ImmBorrow")
      [] req = "borrowUnique" -> borrow(s, cmt, "UniqueImmBorrow")
      [] req = "borrowMut" -> borrow(s, cmt, "MutBorrow")
      [] req = "mutate" -> mutate(s, cmt)

Strength(req) ==
    CASE req = "borrowImm" -> 0
      [] req = "borrowUnique" -> 1
      [] req \in {"borrowMut", "mutate"} -> 2

\* What the walk from the accessed location toward its base meets
\* before the variable's own reference, if it reaches one: interior,
\* downcast and owned-pointer projections are passed; a borrowed-pointer
\* dereference that is no capture is crossed.
RECURSIVE RefWalk(_, _)
RefWalk(cmt, crossed) ==
    LET n == Head(cmt)
    IN  CASE n.cat \in {"Interior", "Downcast"} \/ (n.cat = "Deref" /\ n.kind = "Unique") ->
                RefWalk(Tail(cmt), crossed)
          [] n.cat = "Deref" /\ n.kind = "BorrowedPtr" /\ n.note = "NoteUpvarRef" ->
                [reached |-> TRUE, id |-> n.id, crossed |-> crossed]
          [] n.cat = "Deref" /\ n.kind = "BorrowedPtr"
                /\ n.note \in {"NoteNone", "NoteIndex"} ->
                RefWalk(Tail(cmt), TRUE)
          [] OTHER -> [reached |-> FALSE, id |-> NoId, crossed |-> crossed]

\* -------------------------------------------------------- walk claims
\* A walk state of a by-reference closure that has x among its seeds.
ByRefWalkOverX ==
    ByRefWalk /\ ~delegate.panicked /\ XId \in Seeded(closure)

\* Longest sequence of requests put to one place.
MaxReqs == 2

ReqSeqs == UNION {[1..k -> Requests] : k \in 1..MaxReqs}

RECURSIVE ApplyAll(_, _, _)
ApplyAll(s, cmt, reqs) ==
    IF reqs = <<>> THEN s
    ELSE ApplyAll(Request(s, cmt, Head(reqs)), cmt, Tail(reqs))

RECURSIVE SupStrength(_)
SupStrength(reqs) ==
    IF reqs = <<>> THEN 0 ELSE Max(Strength(Head(reqs)), SupStrength(Tail(reqs)))

\* The places of x the requests of C1 are put to: x itself and places
\* inside x.
C1Projs == {<<>>, <<InteriorField("a")>>, <<Downcast("V")>>}

\* C1: for any sequence of borrow/mutate requests on one (x, path) of a
\* by-reference closure, the final BorrowKind of that path entry and the
\* final invocation class are the supremum of what was there and of the
\* requests (mutate counting as Exclusive, any request above Shared asking
\* for CallMut); every permutation of the sequence gives the same values;
\* repeating a request changes nothing.
C1_Supremum ==
    ByRefWalkOverX =>
        \A proj \in C1Projs, reqs \in ReqSeqs :
            LET cmt == Place(proj, "x", "s1")
                path == capture_path_by_cmt(cmt).path
                s1 == ApplyAll(delegate, cmt, reqs)
                perm == ApplyAll(delegate, cmt, Rev(reqs))
                again == Request(s1, cmt, reqs[1])
                sup == SupStrength(reqs)
            IN  /\ ~s1.panicked
                /\ PathRank(s1, XId, path) = Max(PathRank(delegate, XId, path), sup)
                /\ ClassRank(s1.current_closure_kind) =
                      Max(ClassRank(delegate.current_closure_kind),
                          IF sup > 0 THEN 1 ELSE 0)
                /\ PathRank(perm, XId, path) = PathRank(s1, XId, path)
                /\ perm.current_closure_kind = s1.current_closure_kind
                /\ PathRank(again, XId, path) = PathRank(s1, XId, path)
                /\ again.current_closure_kind = s1.current_closure_kind

\* The ids that have a whole-variable entry, in the delegate or seeded.
WholeIds(s) ==
    (DOMAIN s.adjust_upvar_captures) \cup (DOMAIN tables.upvar_capture_map)

WholeRank(s, id) == ModeRank(WholeMode(s, id))

\* Nothing of s is weaker or missing in t.
Monotone(s, t) ==
    /\ ClassRank(s.current_closure_kind) <= ClassRank(t.current_closure_kind)
    /\ \A id \in WholeIds(s) :
            id \in WholeIds(t) /\ WholeRank(s, id) <= WholeRank(t, id)
    /\ \A id \in DOMAIN s.upvar_captures :
            /\ id \in DOMAIN t.upvar_captures
            /\ \A path \in DOMAIN s.upvar_captures[id] :
                    /\ path \in DOMAIN t.upvar_captures[id]
                    /\ ModeRank(s.upvar_captures[id][path])
                          <= ModeRank(t.upvar_captures[id][path])

\* C2: within one closure's analysis no callback weakens state: the
\* invocation class never decreases, and neither does the mode of any
\* whole-variable entry or of any path-table entry.
C2_NeverWeakens ==
    [][pc = "walk" => Monotone(delegate, delegate')]_vars

\* A unique borrow of x reported after a mutation of x: the weaker request
\* left the Exclusive mode in place.
C2_Witness ==
    /\ ByRefWalkOverX
    /\ delegate = borrow(mutate(NewDelegate(closure), Place(<<>>, "x", "s1")),
                         Place(<<>>, "x", "s2"), "UniqueImmBorrow")
    /\ WholeRank(delegate, XId) = 2
    /\ delegate.upvar_captures[XId][<<>>].kind = "MutBorrow"

\* The ways a read of a place is reported.
Reads == {"consume", "consume_pat", "borrowImm"}

Read(s, cmt, how) ==
    CASE how = "consume" -> consume(s, cmt, "Copy")
      [] how = "consume_pat" -> consume_pat(s, cmt, "Copy")
      [] how = "borrowImm" -> borrow(s, cmt, "ImmBorrow")

\* C3: a by-reference closure whose only uses are a read of x.a and a
\* write of x.b, in either order, ends with exactly two path entries for
\* x, that of x.a Shared and that of x.b Exclusive, and with the class
\* CallMut.
C3_SplitPaths ==
    (ByRefWalkOverX /\ delegate = NewDelegate(closure)) =>
        \A how \in Reads, readFirst \in BOOLEAN :
            LET xa == Place(<<InteriorField("a")>>, "x", "s1")
                xb == Place(<<InteriorField("b")>>, "x", "s2")
                pa == capture_path_by_cmt(xa).path
                pb == capture_path_by_cmt(xb).path
                s1 == IF readFirst THEN mutate(Read(delegate, xa, how), xb)
                      ELSE Read(mutate(delegate, xb), xa, how)
            IN  /\ ~s1.panicked
                /\ DOMAIN s1.upvar_captures = {XId}
                /\ DOMAIN s1.upvar_captures[XId] = {pa, pb}
                /\ s1.upvar_captures[XId][pa].mode = "ByRef"
                /\ s1.upvar_captures[XId][pa].kind = "ImmBorrow"
                /\ s1.upvar_captures[XId][pb].mode = "ByRef"
                /\ s1.upvar_captures[XId][pb].kind = "MutBorrow"
                /\ s1.current_closure_kind = "FnMut"

\* Places of x under two projections, beside those the walk reports.
DeepProjs ==
    {<<InteriorField("a"), InteriorField("b")>>,
     <<InteriorField("a"), Deref("BorrowedPtr", "NoteNone", NoId)>>,
     <<Deref("BorrowedPtr", "NoteNone", NoId), InteriorField("a")>>,
     <<Deref("BorrowedPtr", "NoteNone", NoId), Deref("BorrowedPtr", "NoteNone", NoId)>>,
     <<Deref("Unique", "NoteNone", NoId), Deref("BorrowedPtr", "NoteNone", NoId)>>,
     <<Downcast("V"), Deref("Unique", "NoteNone", NoId)>>,
     <<InteriorField("a"), InteriorElement>>}

ClaimChains == WalkChains(closure) \cup {Place(q, "x", "s1") : q \in DeepProjs}

\* A move of cmt whose guarantor is x's own reference.
MovesThroughReference(cmt) ==
    LET g == Head(guarantor(cmt))
    IN  /\ g.cat = "Deref" /\ g.kind = "BorrowedPtr"
        /\ g.note = "NoteUpvarRef" /\ g.id = XId
        /\ capture_path_by_cmt(cmt).upvar = XId

Moved(s, cmt, how) ==
    IF how = "consume" THEN consume(s, cmt, "Move") ELSE consume_pat(s, cmt, "Move")

\* C4: a move, reported through consume or consume_pat, whose guarantor is
\* x's own reference and whose location resolves to (x, p) sets the path
\* entry (x, p) and the whole-variable mode of x to ByValue and the class
\* to CallOnce, whatever the class was.
C4_MoveThroughReference ==
    (pc = "walk" /\ ~delegate.panicked) =>
        \A cmt \in ClaimChains, how \in {"consume", "consume_pat"} :
            MovesThroughReference(cmt) =>
                LET s1 == Moved(delegate, cmt, how)
                    path == capture_path_by_cmt(cmt).path
                IN  /\ ~s1.panicked
                    /\ s1.upvar_captures[XId][path] = ByValue
                    /\ s1.adjust_upvar_captures[XId] = ByValue
                    /\ s1.current_closure_kind = "FnOnce"

\* x.a was moved out of a closure that was CallShared until then.
C4_Witness ==
    /\ ByRefWalkOverX
    /\ delegate = consume(NewDelegate(closure),
                          Place(<<InteriorField("a")>>, "x", "s1"), "Move")
    /\ delegate.current_closure_kind = "FnOnce"
    /\ delegate.adjust_upvar_captures[XId] = ByValue
    /\ delegate.upvar_captures[XId][capture_path_by_cmt(
            Place(<<InteriorField("a")>>, "x", "s1")).path] = ByValue

\* The path table of id, empty when there is none.
PathsOf(s, id) ==
    IF id \in DOMAIN s.upvar_captures THEN s.upvar_captures[id] ELSE EmptyMap

\* C5: a mutation of field b of a captured variable's own reference makes
\* the variable's borrow Exclusive and the class at least CallMut, and
\* leaves the whole-variable mode and the path table of every other
\* captured variable as they were.
C5_MutationWalk ==
    (ByRefWalk /\ ~delegate.panicked) =>
        \A id \in Seeded(closure), sp \in Spans :
            LET s1 == mutate(delegate, Place(<<InteriorField("b")>>, id.var_path, sp))
            IN  /\ ~s1.panicked
                /\ WholeRank(s1, id) = Max(WholeRank(delegate, id), 2)
                /\ ClassRank(s1.current_closure_kind) >= 1
                /\ \A other \in WholeIds(s1) \ {id} :
                        /\ other \in WholeIds(delegate)
                        /\ WholeMode(s1, other) = WholeMode(delegate, other)
                /\ \A other \in (DOMAIN s1.upvar_captures) \ {id} :
                        /\ other \in DOMAIN delegate.upvar_captures
                        /\ s1.upvar_captures[other] = delegate.upvar_captures[other]

\* x.b was mutated after y had been borrowed uniquely: x is Exclusive and
\* y is as it was.
C5_Witness ==
    /\ ByRefWalk
    /\ closure.freevars = <<"y", "x">>
    /\ delegate = mutate(borrow(NewDelegate(closure), Place(<<>>, "y", "s1"),
                                "UniqueImmBorrow"),
                         Place(<<InteriorField("b")>>, "x", "s2"))
    /\ WholeMode(delegate, XId).kind = "MutBorrow"
    /\ WholeMode(delegate, YId).kind = "UniqueImmBorrow"

\* C6: a mutate, mutable-borrow or unique-borrow walk that reaches x's
\* own reference applies UniqueShared to x when it crossed a
\* borrowed-pointer dereference that is no capture, and the requested
\* strength when it crossed none; the class becomes at least CallMut.
C6_ThroughReference ==
    ByRefWalkOverX =>
        \A cmt \in ClaimChains, req \in Requests \ {"borrowImm"} :
            LET w == RefWalk(cmt, FALSE)
                s1 == Request(delegate, cmt, req)
                applied == IF w.crossed THEN 1 ELSE Strength(req)
            IN  (w.reached /\ w.id = XId) =>
                    /\ ~s1.panicked
                    /\ WholeRank(s1, XId) = Max(WholeRank(delegate, XId), applied)
                    /\ ClassRank(s1.current_closure_kind) >= 1

\* `*x += 1` with x a captured reference: x is UniqueShared and the
\* closure CallMut.
C6_Witness ==
    /\ ByRefWalkOverX
    /\ delegate = mutate(NewDelegate(closure),
                         Place(<<Deref("BorrowedPtr", "NoteNone", NoId)>>, "x", "s1"))
    /\ WholeMode(delegate, XId).kind = "UniqueImmBorrow"
    /\ delegate.current_closure_kind = "FnMut"

\* The seeded variables that ended the walk with no path entry.
Uncaptured ==
    {v \in ListVars(tables) :
        PathsOf(delegate, UpvarId(v, ThisClosure)) = EmptyMap}

\* C7: when a seeded variable ends the walk with no path entry and the
\* visitor reported no omission, the analysis ends in the fatal defect and
\* merges nothing.
C7_MissingCapture ==
    (pc \in {"done", "bug"} /\ ~parts_omitted /\ Uncaptured # {}) =>
        /\ pc = "bug"
        /\ tables.upvar_captures = EmptyMap

\* C8: when the visitor reports an omission the check after the walk
\* raises no defect, whatever the seeds and the path table hold, and the
\* analysis goes on to the merge and to the final upvar types.
C8_RelaxedConsistency ==
    parts_omitted =>
        /\ pc = "done"
        /\ tables.upvar_captures = delegate.upvar_captures
        /\ \A id \in DOMAIN delegate.adjust_upvar_captures :
                tables.upvar_capture_map[id] = delegate.adjust_upvar_captures[id]
        /\ unified.upvar_tys = final_upvar_tys(tables, closure)

\* An omission was reported with a path table that holds a variable the
\* seed list does not.
C8_Witness ==
    /\ parts_omitted
    /\ pc = "done"
    /\ ~(KeyVars(delegate) \subseteq ListVars(tables))

\* Every callback the use-visitor can make with the chain cmt.
Uses ==
    {"consumeCopy", "consumeMove", "consume_patCopy", "consume_patMove",
     "borrowImm", "borrowUnique", "borrowMut", "mutate"}

Use(s, cmt, use) ==
    CASE use = "consumeCopy" -> consume(s, cmt, "Copy")
      [] use = "consumeMove" -> consume(s, cmt, "Move")
      [] use = "consume_patCopy" -> consume_pat(s, cmt, "Copy")
      [] use = "consume_patMove" -> consume_pat(s, cmt, "Move")
      [] use \in Requests -> Request(s, cmt, use)

\* Chains rooted at a local variable, a static item or a thread-local.
NonCaptureRoots == {<<Local>>, <<StaticItem>>, <<ThreadLocal>>}

NonCaptureChains ==
    {WithSpan(q \o r, "s1") : q \in WalkProjs("x") \cup DeepProjs, r \in NonCaptureRoots}

\* C11: a chain rooted at a local variable, a static item or a
\* thread-local resolves to no captured variable and the empty path, and
\* no callback on it changes the path table, the whole-variable modes, the
\* invocation class or the origin.
C11_NonCaptures ==
    (pc = "walk" /\ ~delegate.panicked) =>
        \A cmt \in NonCaptureChains :
            /\ capture_path_by_cmt(cmt) = NoneUpvar
            /\ \A use \in Uses : Use(delegate, cmt, use) = delegate

\* A static was borrowed mutably after x had been mutated: nothing moved.
C11_Witness ==
    /\ ByRefWalkOverX
    /\ delegate.current_closure_kind = "FnMut"
    /\ delegate = borrow(mutate(NewDelegate(closure), Place(<<>>, "x", "s1")),
                         WithSpan(<<InteriorField("a"), StaticItem>>, "s1"), "MutBorrow")

\* What a delegate holds when every use so far was a read: no
\* whole-variable adjustment, only Shared path entries, the class
\* CallShared and no origin.
PureShare(s) ==
    /\ ~s.panicked
    /\ s.adjust_upvar_captures = EmptyMap
    /\ \A id \in DOMAIN s.upvar_captures : \A path \in DOMAIN s.upvar_captures[id] :
            /\ s.upvar_captures[id][path].mode = "ByRef"
            /\ s.upvar_captures[id][path].kind = "ImmBorrow"
    /\ s.current_closure_kind = "Fn"
    /\ s.current_origin = NoOrigin

\* C12: in a by-reference closure whose uses are all reads (copy consumes
\* or Shared borrows) the delegate stays as a read-only walk leaves it,
\* and the analysis ends with x Shared by reference as a whole and in
\* every path entry, with the class CallShared and with no origin.
C12_PureShare ==
    /\ (ByRefWalk /\ PureShare(delegate)) =>
            \A cmt \in ClaimChains, how \in Reads :
                PureShare(Read(delegate, cmt, how))
    /\ (ByRefWalk /\ delegate = NewDelegate(closure)) => PureShare(delegate)
    /\ (pc = "done" /\ closure.capture_clause = "CaptureByRef" /\ PureShare(delegate)) =>
            /\ \A id \in Seeded(closure) :
                    /\ tables.upvar_capture_map[id] = ByRef("ImmBorrow", <<id.var_path>>)
                    /\ \A path \in DOMAIN PathsOf(tables, id) :
                            /\ tables.upvar_captures[id][path].mode = "ByRef"
                            /\ tables.upvar_captures[id][path].kind = "ImmBorrow"
            /\ unified.closure_kind_ty \in {"Fn", "-"}
            /\ infer_kind(closure) => unified.closure_kind_ty = "Fn"
            /\ tables.closure_kind_origins = EmptyMap

\* x and x.a were read and nothing else was used; the analysis is over.
C12_Witness ==
    /\ pc = "done"
    /\ closure.capture_clause = "CaptureByRef"
    /\ XId \in Seeded(closure)
    /\ delegate = consume(borrow(NewDelegate(closure), Place(<<>>, "x", "s1"), "ImmBorrow"),
                          Place(<<InteriorField("a")>>, "x", "s2"), "Copy")
    /\ PureShare(delegate)
    /\ Cardinality(DOMAIN tables.upvar_captures[XId]) = 2
    /\ tables.upvar_capture_map[XId].kind = "ImmBorrow"

\* A walk state of a closure declared by-value.
ByValueWalk ==
    pc = "walk" /\ closure.capture_clause = "CaptureByValue" /\ ~delegate.panicked

\* Where a mutation or unique borrow of cmt ends in a by-value closure:
\* at the closure-environment dereference ("env"), at the Upvar root
\* itself ("root"), or at neither.
RECURSIVE CaptureWalk(_)
CaptureWalk(cmt) ==
    LET n == Head(cmt)
    IN  CASE n.cat \in {"Interior", "Downcast"} \/ (n.cat = "Deref" /\ n.kind = "Unique") ->
                CaptureWalk(Tail(cmt))
          [] n.cat = "Deref" /\ n.kind = "BorrowedPtr" /\ n.note = "NoteClosureEnv" -> "env"
          [] n.cat = "Deref" /\ n.kind = "BorrowedPtr" -> CaptureWalk(Tail(cmt))
          [] n.cat = "Upvar" -> "root"
          [] OTHER -> "none"

\* Where the guarantor of a move of cmt is.
MoveOut(cmt) ==
    LET g == Head(guarantor(cmt))
    IN  CASE g.cat = "Deref" /\ g.kind = "BorrowedPtr" /\ g.note = "NoteClosureEnv" -> "env"
          [] g.cat = "Upvar" -> "root"
          [] OTHER -> "none"

\* The class a use of cmt asks for, when uses that end at one of `ends`
\* count as uses of a capture.
ClassAsked(cmt, use, ends) ==
    CASE use \in {"consumeMove", "consume_patMove"} ->
            IF MoveOut(cmt) \in ends THEN 2 ELSE 0
      [] use \in {"borrowUnique", "borrowMut", "mutate"} ->
            IF CaptureWalk(cmt) \in ends THEN 1 ELSE 0
      [] OTHER -> 0

AllByValue(s) ==
    /\ \A id \in WholeIds(s) : WholeMode(s, id) = ByValue
    /\ \A id \in DOMAIN s.upvar_captures : \A path \in DOMAIN s.upvar_captures[id] :
            s.upvar_captures[id][path] = ByValue

\* The chains of places of seeded variables and of non-captures.
SeededChains ==
    {cmt \in ClaimChains :
        capture_path_by_cmt(cmt).upvar \in Seeded(closure) \cup {NoId}}

DeclaredByValue(ends) ==
    ByValueWalk =>
        /\ AllByValue(delegate)
        /\ \A cmt \in SeededChains, use \in Uses :
                LET s1 == Use(delegate, cmt, use)
                IN  /\ ~s1.panicked
                    /\ AllByValue(s1)
                    /\ ClassRank(s1.current_closure_kind) =
                          Max(ClassRank(delegate.current_closure_kind),
                              ClassAsked(cmt, use, ends))

RegionsInUse(s) ==
    {tables.upvar_capture_map[id].region : id \in DOMAIN tables.upvar_capture_map}
    \cup {s.adjust_upvar_captures[id].region : id \in DOMAIN s.adjust_upvar_captures}
    \cup UNION {{s.upvar_captures[id][path].region : path \in DOMAIN s.upvar_captures[id]} :
                    id \in DOMAIN s.upvar_captures}

HasEntry(s, id, path) ==
    id \in DOMAIN s.upvar_captures /\ path \in DOMAIN s.upvar_captures[id]

\* C14: the first time a (variable, path) is observed it is seeded ByValue
\* in a closure declared by-value and Shared by reference with a fresh
\* lifetime otherwise; seeding a (variable, path) that has an entry
\* changes nothing; no other entry is touched either way.
C14_Seeding ==
    (pc = "walk" /\ ~delegate.panicked) =>
        \A cmt \in ClaimChains :
            LET r == capture_path_by_cmt(cmt)
                s1 == initialize_capture_path(delegate, cmt)
            IN  IF r.upvar = NoId \/ HasEntry(delegate, r.upvar, r.path)
                THEN /\ s1.upvar_captures = IF r.upvar = NoId THEN delegate.upvar_captures
                                            ELSE Put(delegate.upvar_captures, r.upvar,
                                                     delegate.upvar_captures[r.upvar])
                     /\ s1.region_vars = delegate.region_vars
                     /\ s1 = [delegate EXCEPT !.upvar_captures = s1.upvar_captures]
                ELSE /\ HasEntry(s1, r.upvar, r.path)
                     /\ LET seed == s1.upvar_captures[r.upvar][r.path]
                        IN  IF closure.capture_clause = "CaptureByValue"
                            THEN seed = ByValue /\ s1.region_vars = delegate.region_vars
                            ELSE /\ seed.mode = "ByRef" /\ seed.kind = "ImmBorrow"
                                 /\ seed.region \notin RegionsInUse(delegate)
                                 /\ s1.region_vars = delegate.region_vars + 1
                     /\ \A id \in DOMAIN delegate.upvar_captures :
                            \A path \in DOMAIN delegate.upvar_captures[id] :
                                /\ HasEntry(s1, id, path)
                                /\ s1.upvar_captures[id][path] = delegate.upvar_captures[id][path]
                     /\ s1 = [delegate EXCEPT !.upvar_captures = s1.upvar_captures,
                                              !.region_vars = s1.region_vars]

\* x was borrowed Shared after it had been mutated: the second seeding
\* left the Exclusive entry of (x, []) alone; x.a has its own fresh seed.
C14_Witness ==
    /\ ByRefWalkOverX
    /\ delegate = borrow(borrow(mutate(NewDelegate(closure), Place(<<>>, "x", "s1")),
                                Place(<<>>, "x", "s2"), "ImmBorrow"),
                         Place(<<InteriorField("a")>>, "x", "s2"), "ImmBorrow")
    /\ Cardinality(DOMAIN delegate.upvar_captures[XId]) = 2
    /\ \E path \in DOMAIN delegate.upvar_captures[XId] :
            delegate.upvar_captures[XId][path].kind = "MutBorrow"
    /\ \E path \in DOMAIN delegate.upvar_captures[XId] :
            delegate.upvar_captures[XId][path].kind = "ImmBorrow"

\* C15: a copy use reported through consume or consume_pat does what the
\* seeding of the accessed (variable, path) does and nothing more: every
\* existing capture mode, the class and the origin stay as they were, even
\* when the guarantor is the variable's own reference.
C15_CopyUse ==
    (pc = "walk" /\ ~delegate.panicked) =>
        \A cmt \in ClaimChains, use \in {"consumeCopy", "consume_patCopy"} :
            LET s1 == Use(delegate, cmt, use)
            IN  /\ s1 = initialize_capture_path(delegate, cmt)
                /\ s1.adjust_upvar_captures = delegate.adjust_upvar_captures
                /\ s1.current_closure_kind = delegate.current_closure_kind
                /\ s1.current_origin = delegate.current_origin
                /\ ~s1.panicked
                /\ \A id \in DOMAIN delegate.upvar_captures :
                        \A path \in DOMAIN delegate.upvar_captures[id] :
                            /\ HasEntry(s1, id, path)
                            /\ s1.upvar_captures[id][path] = delegate.upvar_captures[id][path]

\* x.a, whose guarantor is x's own reference, was copied out: the class is
\* CallShared, x has no whole-variable adjustment and x.a is Shared.
C15_Witness ==
    /\ ByRefWalkOverX
    /\ MovesThroughReference(Place(<<InteriorField("a")>>, "x", "s1"))
    /\ delegate = consume_pat(NewDelegate(closure),
                              Place(<<InteriorField("a")>>, "x", "s1"), "Copy")
    /\ delegate.current_closure_kind = "Fn"
    /\ delegate.adjust_upvar_captures = EmptyMap
    /\ \A path \in DOMAIN delegate.upvar_captures[XId] :
            delegate.upvar_captures[XId][path].kind = "ImmBorrow"

\* The span and the variable of a chain rooted at a captured variable.
SiteOf(cmt) == <<cmt[1].span, var_name(cmt[Len(cmt)].id.var_path)>>

\* C16: the origin is absent exactly while the class is CallShared; a use
\* that raises the class records its span and the name of its variable,
\* and a use that does not raise the class leaves the origin as it was.
C16_OriginSite ==
    /\ pc \in {"walk", "bug", "done"} =>
            (delegate.current_origin = NoOrigin <=> delegate.current_closure_kind = "Fn")
    /\ (pc = "walk" /\ ~delegate.panicked) =>
            \A cmt \in ClaimChains, use \in Uses :
                LET s1 == Use(delegate, cmt, use)
                IN  IF s1.current_closure_kind = delegate.current_closure_kind
                    THEN s1.current_origin = delegate.current_origin
                    ELSE /\ ClassRank(s1.current_closure_kind)
                                > ClassRank(delegate.current_closure_kind)
                         /\ s1.current_origin = SiteOf(cmt)

\* x was mutated at s1, x.a moved out at s2, x borrowed mutably at s1
\* again: the origin is the move at s2.
C16_Witness ==
    /\ ByRefWalkOverX
    /\ delegate = borrow(consume(mutate(NewDelegate(closure), Place(<<>>, "x", "s1")),
                                 Place(<<InteriorField("a")>>, "x", "s2"), "Move"),
                         Place(<<>>, "x", "s1"), "MutBorrow")
    /\ delegate.current_closure_kind = "FnOnce"
    /\ delegate.current_origin = <<"s2", "x">>

\* analyze_closure has started and has not merged.
BeforeMerge == pc \in {"walk", "bug"}

\* C18 (as stated): from the start of analyze_closure until the merge
\* after the walk the shared tables hold no capture-mode entry for any of
\* the closure's captured variables.
C18_AsStated ==
    BeforeMerge =>
        \A id \in Seeded(closure) :
            /\ id \notin DOMAIN tables.upvar_capture_map
            /\ id \notin DOMAIN tables.upvar_captures

\* C18 (amended): from the start of analyze_closure until the merge after
\* the walk the shared tables hold, for the closure's captured variables,
\* the seeds written at the start and nothing else: the whole-variable
\* mode as seeded (ByValue, or Shared by reference with the seed's
\* lifetime) and the list of the variables; no escalated mode and no path
\* entry is in them, whatever the delegate holds.
C18_NotVisible ==
    BeforeMerge =>
        /\ DOMAIN tables.upvar_capture_map = Seeded(closure)
        /\ \A id \in Seeded(closure) :
                tables.upvar_capture_map[id] =
                    IF closure.capture_clause = "CaptureByValue" THEN ByValue
                    ELSE ByRef("ImmBorrow", <<id.var_path>>)
        /\ tables.upvar_captures = EmptyMap
        /\ ListVars(tables) = {id.var_path : id \in Seeded(closure)}

\* x was mutated and x.a moved out: the delegate holds ByValue for x and
\* three path entries while the shared tables still hold the Shared seed.
C18_Witness ==
    /\ ByRefWalkOverX
    /\ delegate = consume(mutate(NewDelegate(closure), Place(<<>>, "x", "s1")),
                          Place(<<InteriorField("a")>>, "x", "s2"), "Move")
    /\ delegate.adjust_upvar_captures[XId] = ByValue
    /\ Cardinality(DOMAIN delegate.upvar_captures[XId]) = 2
    /\ tables.upvar_capture_map[XId] = ByRef("ImmBorrow", <<"x">>)
    /\ tables.upvar_captures = EmptyMap

\* The chain from the variable's own reference down, for a chain whose
\* borrow/mutate walk reaches it; <<>> when it reaches none.
RECURSIVE OwnReference(_)
OwnReference(cmt) ==
    LET n == Head(cmt)
    IN  CASE n.cat \in {"Interior", "Downcast"} \/ (n.cat = "Deref" /\ n.kind = "Unique") ->
                OwnReference(Tail(cmt))
          [] n.cat = "Deref" /\ n.kind = "BorrowedPtr" /\ n.note = "NoteUpvarRef" -> cmt
          [] n.cat = "Deref" /\ n.kind = "BorrowedPtr"
                /\ n.note \in {"NoteNone", "NoteIndex"} -> OwnReference(Tail(cmt))
          [] OTHER -> <<>>

\* The (variable, path) whose mode a use of cmt escalates, if any: for a
\* move the accessed location, for a borrow or a mutation the location the
\* escalation resolves.
EscalationTarget(cmt, use) ==
    IF use \in {"consumeMove", "consume_patMove"}
    THEN LET g == Head(guarantor(cmt))
         IN  IF g.cat = "Deref" /\ g.kind = "BorrowedPtr" /\ g.note = "NoteUpvarRef"
             THEN [upvar |-> g.id, path |-> capture_path_by_cmt(cmt).path]
             ELSE NoneUpvar
    ELSE IF use \in {"borrowUnique", "borrowMut", "mutate"} /\ OwnReference(cmt) # <<>>
    THEN [upvar |-> Head(OwnReference(cmt)).id,
          path |-> capture_path_by_cmt(OwnReference(cmt)).path]
    ELSE NoneUpvar

\* C19: an escalation (borrow, mutate or move) that targets a
\* (variable, path) with no seed entry aborts the analysis and creates no
\* entry.
C19_UnseededFatal ==
    (pc = "walk" /\ ~delegate.panicked) =>
        \A cmt \in ClaimChains, use \in Uses :
            LET seeded == initialize_capture_path(delegate, cmt)
                target == EscalationTarget(cmt, use)
                s1 == Use(delegate, cmt, use)
            IN  (target.upvar # NoId /\ ~HasEntry(seeded, target.upvar, target.path)) =>
                    /\ s1.panicked
                    /\ ~HasEntry(s1, target.upvar, target.path)

\* C20: a closure whose own type is the error placeholder is skipped:
\* analyze_closure returns at once, and no variable is seeded, no delegate
\* is built and driven, neither the closure kind nor the upvar types are
\* unified, no later step of the analysis runs and the shared tables are
\* as they were.
C20_GracefulSkip ==
    closure.ty = "Error" =>
        /\ pc \in {"start", "skipped"}
        /\ tables = EmptyTables
        /\ delegate = NoDelegate
        /\ unified = NothingUnified
        /\ ~parts_omitted

C20_Witness ==
    /\ closure.ty = "Error"
    /\ closure.freevars = <<"y", "x">>
    /\ pc = "skipped"
    /\ tables = EmptyTables
    /\ delegate = NoDelegate

\* C21: the inferred class is unified with the closure's kind variable,
\* and the origin stored in the shared tables, only when the kind of the
\* closure was not fixed already; for a closure of fixed kind and for a
\* generator nothing is unified with the kind and no origin is stored,
\* while the capture modes the delegate inferred are merged all the same.
\* Nothing of this happens before the walk is over.
C21_KindUnification ==
    /\ pc = "walk" =>
            unified.closure_kind_ty = "-" /\ tables.closure_kind_origins = EmptyMap
    /\ pc = "done" =>
            /\ IF closure.ty = "Closure" /\ closure.kind = "None"
               THEN /\ unified.closure_kind_ty = delegate.current_closure_kind
                    /\ tables.closure_kind_origins =
                          IF delegate.current_origin = NoOrigin THEN EmptyMap
                          ELSE Put(EmptyMap, ThisClosure, delegate.current_origin)
               ELSE /\ unified.closure_kind_ty = "-"
                    /\ tables.closure_kind_origins = EmptyMap
            /\ tables.upvar_captures = delegate.upvar_captures
            /\ \A id \in DOMAIN delegate.adjust_upvar_captures :
                    tables.upvar_capture_map[id] = delegate.adjust_upvar_captures[id]

\* A closure fixed to CallMut from outside moved x.a out: the delegate
\* holds a class and an origin that are not handed on, and its capture
\* modes are in the tables.
C21_Witness ==
    /\ pc = "done"
    /\ closure.ty = "Closure" /\ closure.kind = "FnMut"
    /\ closure.capture_clause = "CaptureByRef"
    /\ delegate = consume(NewDelegate(closure),
                          Place(<<InteriorField("a")>>, "x", "s1"), "Move")
    /\ delegate.current_closure_kind = "FnOnce"
    /\ delegate.current_origin = <<"s1", "x">>
    /\ unified.closure_kind_ty = "-"
    /\ tables.closure_kind_origins = EmptyMap
    /\ tables.upvar_capture_map[XId] = ByValue
    /\ tables.upvar_captures = delegate.upvar_captures

\* The whole-variable mode of a free variable once the delegate's
\* adjustments are merged over the seeds.
FinalMode(id) ==
    IF id \in DOMAIN delegate.adjust_upvar_captures
    THEN delegate.adjust_upvar_captures[id]
    ELSE IF closure.capture_clause = "CaptureByValue" THEN ByValue
    ELSE ByRef("ImmBorrow", <<id.var_path>>)

PrefixPairs ==
    { <<Place(<<InteriorField("a")>>, "x", "s1"),
        Place(<<InteriorField("b"), InteriorField("a")>>, "x", "s2")>>,
      <<Place(<<>>, "x", "s1"), Place(<<InteriorField("a")>>, "x", "s2")>> }

\* C24: when the only uses of a by-reference closure are a shared borrow
\* of a place A of x and a mutable borrow of a place B of x, A being a
\* prefix of B, in either order, the path table of x ends with the single
\* entry of A, borrowed mutably.
C24_PathMerging ==
    (ByRefWalkOverX /\ delegate = NewDelegate(closure)) =>
        \A pair \in PrefixPairs, sharedFirst \in BOOLEAN :
            LET A == pair[1]
                B == pair[2]
                pa == capture_path_by_cmt(A).path
                s1 == IF sharedFirst
                      THEN borrow(borrow(delegate, A, "ImmBorrow"), B, "MutBorrow")
                      ELSE borrow(borrow(delegate, B, "MutBorrow"), A, "ImmBorrow")
            IN  /\ ~s1.panicked
                /\ DOMAIN s1.upvar_captures = {XId}
                /\ DOMAIN s1.upvar_captures[XId] = {pa}
                /\ s1.upvar_captures[XId][pa].mode = "ByRef"
                /\ s1.upvar_captures[XId][pa].kind = "MutBorrow"

\* The greatest rank among the entries of a path table of one variable.
SupRank(paths) ==
    CHOOSE r \in 0..3 :
        /\ \E path \in DOMAIN paths : ModeRank(paths[path]) = r
        /\ \A path \in DOMAIN paths : ModeRank(paths[path]) <= r

\* C27: when the analysis of a by-reference closure ends without a fatal
\* defect, the whole-variable mode merged for a captured variable that has
\* a path entry is the supremum (Shared < UniqueShared < Exclusive <
\* ByValue) of the modes of its path entries.
C27_WholeIsSupremum ==
    (pc = "done" /\ closure.capture_clause = "CaptureByRef") =>
        \A id \in Seeded(closure) :
            PathsOf(tables, id) # EmptyMap =>
                ModeRank(tables.upvar_capture_map[id]) = SupRank(tables.upvar_captures[id])

\* x.a was borrowed uniquely, x.b mutated and x.a read: x as a whole is
\* Exclusive, and so is the strongest of its three path entries.
C27_Witness ==
    /\ pc = "done"
    /\ closure.capture_clause = "CaptureByRef"
    /\ XId \in Seeded(closure)
    /\ XId \in DOMAIN tables.upvar_captures
    /\ Cardinality(DOMAIN tables.upvar_captures[XId]) = 3
    /\ tables.upvar_capture_map[XId].kind = "MutBorrow"
    /\ SupRank(tables.upvar_captures[XId]) = 2
    /\ \E path \in DOMAIN tables.upvar_captures[XId] :
            tables.upvar_captures[XId][path].kind = "ImmBorrow"

\* C28: after a consume, consume_pat, borrow or mutate callback whose
\* chain resolves to (x, p) the path table has an entry for (x, p); no
\* callback takes an entry out of the path table; matched_pat and
\* decl_without_init change nothing.
C28_EntryAfterUse ==
    (pc = "walk" /\ ~delegate.panicked) =>
        /\ \A cmt \in ClaimChains, use \in Uses :
                LET r == capture_path_by_cmt(cmt)
                    s1 == Use(delegate, cmt, use)
                IN  /\ r.upvar # NoId => HasEntry(s1, r.upvar, r.path)
                    /\ \A id \in DOMAIN delegate.upvar_captures :
                            \A path \in DOMAIN delegate.upvar_captures[id] :
                                HasEntry(s1, id, path)
        /\ \A cmt \in ClaimChains, mode \in {"Copy", "Move"} :
                matched_pat(delegate, cmt, mode) = delegate
        /\ decl_without_init(delegate) = delegate

\* x was mutated and x.a then borrowed: both places have their entry.
C28_Witness ==
    /\ pc = "walk" /\ ~delegate.panicked
    /\ XId \in Seeded(closure)
    /\ delegate = borrow(mutate(NewDelegate(closure), Place(<<>>, "x", "s1")),
                         Place(<<InteriorField("a")>>, "x", "s2"), "ImmBorrow")
    /\ HasEntry(delegate, XId, capture_path_by_cmt(Place(<<>>, "x", "s1")).path)
    /\ HasEntry(delegate, XId,
                capture_path_by_cmt(Place(<<InteriorField("a")>>, "x", "s2")).path)
    /\ Cardinality(DOMAIN delegate.upvar_captures[XId]) >= 2

\* C29: in a walk whose escalation reaches the closure-environment
\* dereference (the closure is declared by-value), a mutation or a borrow
\* other than Shared raises the class to at least CallMut and a move to
\* CallOnce; the escalation changes no whole-variable mode, in the
\* delegate or in the tables, and no path entry: the path table is as the
\* seeding of the accessed place left it.
C29_ClosureEnvironment ==
    ByValueWalk =>
        \A cmt \in ClaimChains, use \in Uses :
            LET s0 == initialize_capture_path(delegate, cmt)
                s1 == Use(delegate, cmt, use)
                asked == ClassAsked(cmt, use, {"env"})
            IN  asked > 0 =>
                    /\ ~s1.panicked
                    /\ ClassRank(s1.current_closure_kind) >= asked
                    /\ s1.current_closure_kind # delegate.current_closure_kind =>
                            ClassRank(s1.current_closure_kind) = asked
                    /\ s1.adjust_upvar_captures = delegate.adjust_upvar_captures
                    /\ s1.upvar_captures = s0.upvar_captures
                    /\ \A id \in DOMAIN delegate.upvar_captures :
                            \A path \in DOMAIN delegate.upvar_captures[id] :
                                /\ HasEntry(s1, id, path)
                                /\ s1.upvar_captures[id][path] = delegate.upvar_captures[id][path]

\* `move || cmm += 1` followed by a move of x.a out of the closure: the
\* class went to CallMut and then to CallOnce, nothing was adjusted and the
\* two path entries are the ByValue seeds.
C29_Witness ==
    /\ ByValueWalk
    /\ XId \in Seeded(closure)
    /\ CaptureWalk(Place(<<>>, "x", "s1")) = "env"
    /\ mutate(NewDelegate(closure), Place(<<>>, "x", "s1")).current_closure_kind = "FnMut"
    /\ delegate = consume(mutate(NewDelegate(closure), Place(<<>>, "x", "s1")),
                          Place(<<InteriorField("a")>>, "x", "s2"), "Move")
    /\ delegate.current_closure_kind = "FnOnce"
    /\ delegate.adjust_upvar_captures = EmptyMap
    /\ Cardinality(DOMAIN delegate.upvar_captures[XId]) = 2
    /\ AllByValue(delegate)
    /\ tables.upvar_capture_map[XId] = ByValue

\* A closure other than the one under analysis, and the chains of places
\* of a variable it owns.
OtherClosure == "D"

ForeignChains ==
    {WithSpan(q \o UpvarChain(UpvarId("x", OtherClosure), byref, env), sp) :
        q \in {<<>>, <<InteriorField("a")>>, <<Deref("BorrowedPtr", "NoteNone", NoId)>>},
        byref \in BOOLEAN, env \in BOOLEAN, sp \in Spans}

\* C30: a request to raise the class that names a captured variable of
\* another closure leaves the class and the origin of the analysis under
\* way as they were, whatever class is asked for and whatever use of the
\* foreign variable makes the request.
C30_ForeignClosure ==
    (pc = "walk" /\ ~delegate.panicked) =>
        /\ \A new_kind \in {"Fn", "FnMut", "FnOnce"}, sp \in Spans, v \in Vars :
                adjust_closure_kind(delegate, OtherClosure, new_kind, sp, var_name(v))
                    = delegate
        /\ \A cmt \in ForeignChains, use \in Uses :
                LET s1 == Use(delegate, cmt, use)
                IN  /\ s1.current_closure_kind = delegate.current_closure_kind
                    /\ s1.current_origin = delegate.current_origin

\* The closure under analysis is CallMut since x was mutated at s1; a move
\* out of the other closure's x at s2 asks for CallOnce in vain, where the
\* same move of its own x is heeded.
C30_Witness ==
    /\ ByValueWalk
    /\ XId \in Seeded(closure)
    /\ delegate = mutate(NewDelegate(closure), Place(<<>>, "x", "s1"))
    /\ delegate.current_closure_kind = "FnMut"
    /\ delegate.current_origin = <<"s1", "x">>
    /\ consume(delegate, Place(<<>>, "x", "s2"), "Move").current_closure_kind = "FnOnce"
    /\ LET foreign == WithSpan(UpvarChain(UpvarId("x", OtherClosure), FALSE, TRUE), "s2")
           s1 == consume(delegate, foreign, "Move")
       IN  /\ MoveOut(foreign) = "env"
           /\ ~s1.panicked
           /\ s1.current_closure_kind = "FnMut"
           /\ s1.current_origin = <<"s1", "x">>

\* What the tables hold for the closure c: the whole-variable modes and
\* the path tables of its variables, its list and its origin.
EntriesFor(tbl, c) ==
    [upvar_capture_map |->
        [id \in {i \in DOMAIN tbl.upvar_capture_map : i.closure_expr_id = c} |->
            tbl.upvar_capture_map[id]],
     upvar_captures |->
        [id \in {i \in DOMAIN tbl.upvar_captures : i.closure_expr_id = c} |->
            tbl.upvar_captures[id]],
     upvar_list |->
        [k \in (DOMAIN tbl.upvar_list) \cap {c} |-> tbl.upvar_list[k]],
     closure_kind_origins |->
        [k \in (DOMAIN tbl.closure_kind_origins) \cap {c} |-> tbl.closure_kind_origins[k]]]

\* C31: what the shared tables hold for the variables of a closure whose
\* analysis is over -- the whole-variable modes and the path tables -- is
\* changed by no step of the later analysis of the closure that encloses
\* it.
C31_FinalizedUntouched ==
    [][EntriesFor(tables', InnerClosure) = EntriesFor(tables, InnerClosure)]_vars

\* The enclosing closure moved x.a out and its analysis is over: its x is
\* ByValue, the inner closure's x is still borrowed mutably with its two
\* path entries.
C31_Witness ==
    /\ pc = "done"
    /\ closure.capture_clause = "CaptureByRef"
    /\ XId \in Seeded(closure)
    /\ delegate = consume(NewDelegate(closure),
                          Place(<<InteriorField("a")>>, "x", "s1"), "Move")
    /\ tables.upvar_capture_map[XId] = ByValue
    /\ tables.upvar_captures[XId] = delegate.upvar_captures[XId]
    /\ tables.upvar_capture_map[UpvarId("x", InnerClosure)] = ByRef("MutBorrow", <<"x">>)
    /\ DOMAIN tables.upvar_captures[UpvarId("x", InnerClosure)] = {<<>>, <<Field("a")>>}
    /\ tables.upvar_list[InnerClosure] =
            <<UpvarId("y", InnerClosure), UpvarId("x", InnerClosure)>>

\* ----------------------------------------------------- visitor claims
\* Closure c is in the body of closure d, at any depth.
RECURSIVE NestedIn(_, _)
NestedIn(c, d) ==
    parent[c] # 0 /\ (parent[c] = d \/ NestedIn(parent[c], d))

Range1(s) == {s[i] : i \in DOMAIN s}

\* C17: for every closure C nested inside closure D, the whole analysis
\* of C (seed, walk, check, merge, types, deferred resolutions) is over
\* before the analysis of D starts.
C17_InsideOut ==
    pc \in {"visit", "visited"} =>
        \A c \in 1..MaxClosures, d \in 1..MaxClosures :
            (NestedIn(c, d)
             /\ phase[d] \in Range1(AnalysisPhases) \cup {"returned", "done"}) =>
                phase[c] = "done"

\* The body of a closure that holds another is being walked.
C17_Witness ==
    /\ pc = "visit"
    /\ \E c \in 1..MaxClosures, d \in 1..MaxClosures :
            /\ NestedIn(c, d) /\ parent[c] # d
            /\ phase[d] = "walk" /\ phase[c] = "done"

\* C23: every call resolution deferred for a closure is resolved exactly
\* once, in the analysis of that closure and after its kind and its upvar
\* types were unified; when the traversal of the body is over none is
\* pending and the assertion of closure_analyze holds.
C23_DeferredResumed ==
    stack # <<>> =>
        /\ pc # "bug"
        /\ \A c \in 1..MaxClosures, k \in CallIds :
                IF k \in fcx.registered[c]
                THEN /\ fcx.resolves[c][k] <= 1
                     /\ k \in fcx.deferred_call_resolutions[c] <=> fcx.resolves[c][k] = 0
                     /\ fcx.resolves[c][k] = 1 <=> phase[c] \in {"deferred", "done"}
                ELSE /\ fcx.resolves[c][k] = 0
                     /\ k \notin fcx.deferred_call_resolutions[c]
        /\ pc = "visited" =>
                \A c \in 1..MaxClosures :
                    /\ fcx.deferred_call_resolutions[c] = {}
                    /\ \A k \in fcx.registered[c] : fcx.resolves[c][k] = 1

\* The traversal of a body is over in which a closure with a deferred
\* call sits inside another and a third closure is of error type.
C23_Witness ==
    /\ pc = "visited"
    /\ \E c \in 1..MaxClosures, d \in 1..MaxClosures, e \in 1..MaxClosures :
            /\ parent[c] = d
            /\ fcx.registered[c] # {} /\ fcx.registered[d] # {}
            /\ \A k \in fcx.registered[c] : fcx.resolves[c][k] = 1
            /\ fcx.node_ty[e] = "Error"

\* -------------------------------------------------------- dump claims
\* C25: closure_analyze emits no note when the owner of the body lacks
\* the attribute; with the attribute it emits exactly one note for every
\* (variable, path) entry of the path table, carrying the variable, the
\* path and the capture mode of the entry, and the notes are emitted in
\* non-decreasing order of their spans.
C25_CaptureDump ==
    pc = "dumped" =>
        IF ~has_attr THEN emitted = <<>>
        ELSE LET es == EntriesOf(tables.upvar_captures)
             IN  /\ Len(emitted) = Cardinality(es)
                 /\ \A e \in es :
                        Cardinality({i \in 1..Len(emitted) :
                            emitted[i] = Diag(tables.upvar_captures, e)}) = 1
                 /\ \A i, j \in 1..Len(emitted) :
                        i < j => emitted[i].span <= emitted[j].span

\* Three notes of two closures were buffered with the later closure
\* first and emitted with the earlier closure first.
C25_Witness ==
    /\ pc = "dumped"
    /\ has_attr
    /\ Len(emitted) = 3
    /\ errors_buffer[1].span = 2
    /\ emitted[1].span = 1
    /\ emitted[3].span = 2
    /\ emitted # errors_buffer

\* ---------------------------------------------------- resolver claims
\* The chains  p -> dereference(marked as x's own reference) -> ...  the
\* categorizer builds for a by-reference capture: with the
\* closure-environment dereference beneath the marked one, or with the
\* marked dereference directly on the Upvar root.
MarkedChains(p) ==
    {p \o UpvarChain(XId, TRUE, env) : env \in BOOLEAN}

C9Chains == MarkedChains(<<InteriorField("a"), InteriorField("b")>>)

C10Chains == MarkedChains(<<InteriorField("a"), InteriorElement, InteriorField("c")>>)

\* C10: the chain field(a) -> index -> field(c) -> dereference(marked)
\* resolves to path [Field(c)] only: what was accumulated on the leaf side
\* of the indexing projection is discarded.
C10_IndexReset ==
    (pc = "resolved" /\ cmt_in \in C10Chains) =>
        resolved = [upvar |-> XId, path |-> <<Field("c")>>]

\* The projections that add a component to the path, and the component
\* each adds.
PlainNodes ==
    {InteriorField("a"), InteriorField("b"), InteriorField("c"), Downcast("V"),
     Deref("BorrowedPtr", "NoteNone", NoId), Deref("Unique", "NoteNone", NoId)}

Component(n) ==
    CASE n.cat = "Interior" -> Field(n.name)
      [] n.cat = "Downcast" -> CDowncast(n.name)
      [] n.cat = "Deref" -> CDeref

PlainProjs == UNION {[1..k -> PlainNodes] : k \in 0..MaxProj}

\* C26: a chain whose projections p sit on the dereference annotated as
\* x's own reference resolves to x and to the components of p in
\* root-to-leaf order, without a Deref component for the annotated
\* dereference, whatever the annotation of the base of that dereference.
C26_OwnReference ==
    pc = "resolved" =>
        \A p \in PlainProjs, env \in BOOLEAN :
            cmt_in = p \o UpvarChain(XId, TRUE, env) =>
                resolved = [upvar |-> XId,
                            path |-> Rev([i \in 1..Len(p) |-> Component(p[i])])]

\* The projections of fields and variants alone.
FieldProjs ==
    UNION {[1..k -> {InteriorField("a"), InteriorField("b"), InteriorField("c"),
                     Downcast("V")}] : k \in 0..MaxProj}

\* C32: an Rvalue that wraps an inner chain discards what was accumulated
\* and the walk goes on from the inner chain with an empty accumulator:
\* the chain resolves as the inner chain alone does, and to x with the
\* fields of the inner chain when these sit on x's own reference; an
\* Rvalue without an inner chain resolves to no captured variable and the
\* empty path, whatever was accumulated.
C32_Temporary ==
    pc = "resolved" =>
        /\ cmt_in[Len(cmt_in)].cat = "Rvalue" => resolved = NoneUpvar
        /\ \A i \in 1..(Len(cmt_in) - 1) :
                cmt_in[i].cat = "Rvalue" =>
                    LET inner == SubSeq(cmt_in, i + 1, Len(cmt_in))
                    IN  /\ resolved = capture_path_by_cmt(inner)
                        /\ \A q \in FieldProjs :
                                inner = q \o UpvarChain(XId, TRUE, TRUE) =>
                                    resolved =
                                        [upvar |-> XId,
                                         path |-> Rev([j \in 1..Len(q) |-> Component(q[j])])]

\* Field a of a temporary made from x.b: the path is [Field(b)].
C32_Witness ==
    /\ pc = "resolved"
    /\ cmt_in = <<InteriorField("a"), Rvalue, InteriorField("b")>>
                    \o UpvarChain(XId, TRUE, TRUE)
    /\ resolved = [upvar |-> XId, path |-> <<Field("b")>>]

====
